---------------------------- MODULE Spec2Model ----------------------------
(***************************************************************************)
(* RoadPay webhook processing: WebhookProcessor (webhooks.py), EventRouter *)
(* (events.py) and the /webhooks route (main.py); API keys: APIKeyManager  *)
(* (api_keys.py); customer onboarding: OnboardingManager (onboarding.py).  *)
(*                                                                         *)
(* The three entry points share no state: the processor keeps in-memory    *)
(* lists, the router keeps the Storage collaborator, the route keeps       *)
(* nothing.  Requests may arrive at any of them, in any interleaving.      *)
(*                                                                         *)
(* Every coroutine is cut at its suspension points (await handler, await   *)
(* asyncio.sleep, await storage.get/put); the code between two suspension  *)
(* points is one atomic step of the asyncio event loop.                    *)
(*                                                                         *)
(* The key manager and the onboarding manager each keep their state in a   *)
(* Storage collaborator of their own, a key-value store that holds copies  *)
(* of the values put; their calls interleave at storage.get / storage.put. *)
(***************************************************************************)
EXTENDS Integers, Sequences, FiniteSets

VARIABLES
    calls,         \* number of webhook calls started so far (also the logical clock)
    wp,            \* the WebhookProcessor object: max_retries, retry_delay, handlers, event_log, failed_events
    heap,          \* the WebhookEvent objects; event_log and failed_events hold references into it
    wp_task,       \* per request task: position and locals of process / retry_failed / _process_event
    er,            \* the EventRouter object: handlers, storage
    er_task,       \* per request task: position and locals of process_webhook
    er_handled,    \* per event id: how many times the routed handler was invoked
    route_result,  \* what handle_webhook answered last
    notifications, \* whether create_event_router was given an email_sender (a NotificationService exists)
    outbox,        \* the email_sender.send calls that completed, in order
    dh,            \* per request task: the frame of the domain handler's handle() call
    km,            \* the APIKeyManager: its storage, the random draws so far, what callers were told
    km_task,       \* per caller task: position and locals of the APIKeyManager call
    ob,            \* the OnboardingManager: its storage
    ob_task        \* per caller task: position and locals of the OnboardingManager call

vars == <<calls, wp, heap, wp_task, er, er_task, er_handled, route_result,
          notifications, outbox, dh, km, km_task, ob, ob_task>>

-----------------------------------------------------------------------------
(* Bounds *)

\* Total number of webhook calls (process, retry_failed, process_webhook, handle_webhook).
MaxCalls == 2

\* Total number of APIKeyManager calls, the create_key of the first key included.
MaxKeyCalls == 3

\* Total number of APIKeyManager calls where a key is revoked and then used
\* (RevokeSpec), the create_key of the first key included.
MaxRevokeCalls == 6

\* The rate_limit keys are created with.
SmallRateLimit == 1

\* Number of OnboardingManager calls that follow the signup calls.
MaxOnboardingCalls == 2

\* Largest max_retries a processor is configured with.
MaxRetries == 2

\* The max_retries a processor is configured with: 0 (no attempt is made),
\* 1 (one attempt, never retried) and the largest (every retry up to it).
RetryLimits == {0, 1, MaxRetries}

\* Request tasks the event loop runs concurrently, as slots 1 and 2; a new
\* request, to whichever entry point, is served in the lowest free slot.
Tasks == {1, 2}

\* The slot serves no request, at the processor or at the router.
Free(t) == wp_task[t].pc = "idle" /\ er_task[t].pc = "idle"

LowestFree(t) == Free(t) /\ \A u \in Tasks : u < t => ~Free(u)

\* retry_delay as WebhookProcessor.__init__ defaults it.
DefaultRetryDelay == 60

\* Largest max_retries of the processors whose backoff schedule is followed
\* attempt by attempt (0 .. MaxAttempts), and the retry_delay values they take.
MaxAttempts == 4

RetryDelays == {1, DefaultRetryDelay}

-----------------------------------------------------------------------------
(* Inbound requests *)

EventIds == {"evt_1", "evt_2", "evt_3"}

\* Further events, delivered to the router with the domain handlers: an
\* invoice.paid without customer email, customer.subscription.updated with each
\* shape of previous_attributes, and charge.dispute.created.
SubscriptionUpdatedIds ==
    {"evt_sub_active_past_due", "evt_sub_trialing_past_due",
     "evt_sub_active_canceled", "evt_sub_plan_active_past_due",
     "evt_sub_plan", "evt_sub_no_previous"}

\* checkout.session.expired with a contact email, without customer details,
\* and with customer details whose email is empty.
CheckoutExpiredIds ==
    {"evt_expired_email", "evt_expired_no_details", "evt_expired_empty_email"}

HandlerEventIds ==
    {"evt_1", "evt_3", "evt_paid_no_email", "evt_dispute"}
        \cup SubscriptionUpdatedIds \cup CheckoutExpiredIds

AllEventIds == EventIds \cup HandlerEventIds

\* The provider assigns the id; an id names one event, hence one type.
TypeOf(id) ==
    CASE id = "evt_1" -> "invoice.paid"
      [] id = "evt_2" -> "charge.refunded"
      [] id = "evt_paid_no_email" -> "invoice.paid"
      [] id = "evt_dispute" -> "charge.dispute.created"
      [] id \in SubscriptionUpdatedIds -> "customer.subscription.updated"
      [] id \in CheckoutExpiredIds -> "checkout.session.expired"
      [] OTHER        -> "customer.created"

\* A request: raw payload (parseable or not, carrying an event id) and the
\* Stripe-Signature header (matching the payload under the secret or not).
\* A request that fails verification is rejected before its id is read, so one
\* id stands for all of them.
Requests ==
    {r \in [well_formed : BOOLEAN, sig_ok : BOOLEAN, id : EventIds] :
        (r.well_formed /\ r.sig_ok) \/ r.id = "evt_1"}

NoRequest == [well_formed |-> FALSE, sig_ok |-> FALSE, id |-> "none"]

\* stripe.Webhook.construct_event as the three entry points call it: the header
\* is verified first (SignatureVerificationError), then the payload is parsed
\* (ValueError).
ConstructEvent_NoSignatureCheck(req) ==
    IF ~req.well_formed THEN "ValueError" ELSE "ok"

ConstructEvent(req) ==
    IF ~req.sig_ok THEN "SignatureVerificationError"
    ELSE IF ~req.well_formed THEN "ValueError"
    ELSE "ok"

NoResult == [kind |-> "none"]

Returns(body) == [kind |-> "return", body |-> body]

HTTPException(status_code, detail) ==
    [kind |-> "HTTPException", status_code |-> status_code, detail |-> detail]

Raises(error) == [kind |-> "raise", error |-> error]

-----------------------------------------------------------------------------
(* WebhookProcessor (webhooks.py) *)

\* WebhookProcessor.on: append func to the handler list of event_type.
On(handlers, event_type, func) ==
    IF event_type \notin DOMAIN handlers
    THEN [k \in DOMAIN handlers \cup {event_type} |->
            IF k = event_type THEN <<func>> ELSE handlers[k]]
    ELSE [handlers EXCEPT ![event_type] = Append(@, func)]

NoHandlers == [k \in {} |-> <<>>]

\* The registrations done before traffic: InvoiceHandlers.on_invoice_paid and an
\* application handler on invoice.paid, PaymentHandlers.on_refund on charge.refunded.
RegisteredHandlers ==
    On(On(On(NoHandlers, "invoice.paid", "on_invoice_paid"),
          "invoice.paid", "fulfil_order"),
       "charge.refunded", "on_refund")

\* WebhookProcessor.__init__
NewProcessor(max_retries, retry_delay) ==
    [max_retries   |-> max_retries,
     retry_delay   |-> retry_delay,
     handlers      |-> RegisteredHandlers,
     event_log     |-> <<>>,
     failed_events |-> <<>>]

\* WebhookEvent(id, type, data, created) with the dataclass defaults.
NewEvent(id) ==
    [id |-> id, type |-> TypeOf(id), processed_at |-> "None",
     attempts |-> 0, last_error |-> "None"]

\* WebhookProcessor.verify_signature
verify_signature(req) == ConstructEvent(req) = "ok"

\* self.handlers.get(event.type, [])
HandlersGet(handlers, type) ==
    IF type \in DOMAIN handlers THEN handlers[type] ELSE <<>>

\* any(e.id == event.id for e in self.event_log)
IsDuplicate_FailedOnly(self, hp, id) ==
    \E i \in 1..Len(self.failed_events) : hp[self.failed_events[i]].id = id

IsDuplicate(self, hp, id) ==
    \E i \in 1..Len(self.event_log) : hp[self.event_log[i]].id = id

\* A task of process / retry_failed: its position, its locals, what it did
\* (trace of handler outcomes, sleeps), its answer; and `solo`: no other call was
\* in flight when this one arrived and none has arrived since.
IdleTask ==
    [pc |-> "idle", op |-> "none", req |-> NoRequest, event_id |-> "none",
     ev |-> 0, h |-> 0, attempt |-> 0, errors |-> <<>>, trace |-> <<>>,
     slept |-> <<>>, solo |-> FALSE, result |-> NoResult]

\* The handlers of the event a task is processing.
TaskHandlers(self, hp, tk) == HandlersGet(self.handlers, hp[tk.ev].type)

\* _process_event, lines 180-190: stamp, log and answer.
Finish(s) ==
    LET tk == s.task IN
    [s EXCEPT
       !.heap[tk.ev].processed_at = "set",
       !.self.event_log = Append(@, tk.ev),
       !.task.pc = "done",
       !.task.result =
           IF tk.errors # <<>>
           THEN Returns([status |-> "partial_failure",
                         event_id |-> s.heap[tk.ev].id,
                         errors |-> tk.errors])
           ELSE Returns([status |-> "processed",
                         event_id |-> s.heap[tk.ev].id])]

\* for attempt in range(self.max_retries): is there an iteration `attempt`?
InRange_OneMore(attempt, max_retries) == attempt < max_retries + 1

InRange(attempt, max_retries) == attempt < max_retries

\* The for-else of lines 176-178: the attempts ran out without a break.
Exhausted(s) ==
    [s EXCEPT !.self.failed_events = Append(@, s.task.ev)]

\* Top of `for handler in handlers` with handler number s.task.h next, run up
\* to the first await: the first attempt of a handler, or the end of the run.
RECURSIVE ForHandler(_)
ForHandler(s) ==
    LET tk == s.task
        hs == TaskHandlers(s.self, s.heap, tk)
    IN  IF tk.h > Len(hs) THEN Finish(s)
        ELSE IF ~InRange(0, s.self.max_retries)
             THEN ForHandler([Exhausted(s) EXCEPT !.task.h = tk.h + 1])
        ELSE [s EXCEPT !.task.attempt = 0,
                       !.heap[tk.ev].attempts = 1,
                       !.task.pc = "handler"]

\* _process_event, lines 153-160: no handlers, just log; else enter the loop.
NoHandlersBranch_DeadLetter(s) ==
    [s EXCEPT !.self.event_log = Append(@, s.task.ev),
              !.self.failed_events = Append(@, s.task.ev),
              !.task.pc = "done",
              !.task.result = Returns([status |-> "ignored",
                                       type |-> s.heap[s.task.ev].type])]

NoHandlersBranch(s) ==
    [s EXCEPT !.self.event_log = Append(@, s.task.ev),
              !.task.pc = "done",
              !.task.result = Returns([status |-> "ignored",
                                       type |-> s.heap[s.task.ev].type])]

ProcessEvent(s) ==
    IF TaskHandlers(s.self, s.heap, s.task) = <<>>
    THEN NoHandlersBranch(s)
    ELSE ForHandler([s EXCEPT !.task.h = 1, !.task.errors = <<>>])

\* WebhookProcessor.process up to its first await inside _process_event.
ProcessCall(s, req) ==
    LET started == [s EXCEPT !.task.op = "process", !.task.req = req] IN
    IF ~verify_signature(req)
    THEN [started EXCEPT !.task.pc = "done",
                         !.task.result = HTTPException(400, "Invalid signature")]
    ELSE IF ~req.well_formed
    THEN [started EXCEPT !.task.pc = "done",
                         !.task.result = HTTPException(400, "Invalid JSON")]
    ELSE IF IsDuplicate(s.self, s.heap, req.id)
    THEN [started EXCEPT !.task.pc = "done",
                         !.task.result = Returns([status |-> "duplicate",
                                                  event_id |-> req.id])]
    ELSE ProcessEvent([started EXCEPT !.heap = Append(@, NewEvent(req.id)),
                                      !.task.ev = Len(s.heap) + 1])

\* await handler(event, event.data) returned: break, on to the next handler.
HandlerReturned_NoBreak(s) ==
    LET tk == s.task
        returned == [s EXCEPT !.task.trace = Append(@, <<tk.h, "returned">>)]
    IN  IF InRange(tk.attempt + 1, s.self.max_retries)
        THEN [returned EXCEPT !.task.attempt = tk.attempt + 1,
                              !.heap[tk.ev].attempts = tk.attempt + 2,
                              !.task.pc = "handler"]
        ELSE ForHandler([Exhausted(returned) EXCEPT !.task.h = tk.h + 1])

HandlerReturned(s) ==
    LET tk == s.task
        hs == TaskHandlers(s.self, s.heap, tk)
    IN  ForHandler([s EXCEPT
            !.task.trace = Append(@, <<tk.h, "returned">>),
            !.task.h = tk.h + 1])

\* str(e) of the exception a handler raises.
ExceptionText == "boom"

\* retry_delay * (attempt + 1)
Backoff_Constant(retry_delay, attempt) == retry_delay

Backoff(retry_delay, attempt) == retry_delay * (attempt + 1)

\* await handler(event, event.data) raised: lines 169-178.
HandlerRaised(s) ==
    LET tk == s.task
        hs == TaskHandlers(s.self, s.heap, tk)
        caught == [s EXCEPT
            !.task.trace = Append(@, <<tk.h, "raised">>),
            !.heap[tk.ev].last_error = ExceptionText,
            !.task.errors = Append(@, <<hs[tk.h], ExceptionText>>)]
    IN  IF tk.attempt < s.self.max_retries - 1
        THEN [caught EXCEPT !.task.pc = "sleep"]
        ELSE IF InRange(tk.attempt + 1, s.self.max_retries)
        THEN [caught EXCEPT !.task.attempt = tk.attempt + 1,
                            !.heap[tk.ev].attempts = tk.attempt + 2,
                            !.task.pc = "handler"]
        ELSE ForHandler([Exhausted(caught) EXCEPT !.task.h = tk.h + 1])

\* await self._async_sleep(...) is over: the next iteration of the attempt loop.
Woke(s) ==
    LET tk == s.task
        slept == [s EXCEPT !.task.slept =
                     Append(@, Backoff(s.self.retry_delay, tk.attempt))]
        hs == TaskHandlers(s.self, s.heap, tk)
    IN  IF InRange(tk.attempt + 1, s.self.max_retries)
        THEN [slept EXCEPT !.task.attempt = tk.attempt + 1,
                           !.heap[tk.ev].attempts = tk.attempt + 2,
                           !.task.pc = "handler"]
        ELSE ForHandler([Exhausted(slept) EXCEPT !.task.h = tk.h + 1])

\* retry_failed, lines 210-214: the index of the first failed event with the id.
FirstFailed_IgnoresId(self, hp, event_id) ==
    IF self.failed_events = <<>> THEN 0 ELSE 1

FirstFailed(self, hp, event_id) ==
    LET hits == {i \in 1..Len(self.failed_events) :
                    hp[self.failed_events[i]].id = event_id}
    IN  IF hits = {} THEN 0
        ELSE CHOOSE i \in hits : \A j \in hits : i <= j

\* list.pop(i)
Pop(seq, i) == SubSeq(seq, 1, i - 1) \o SubSeq(seq, i + 1, Len(seq))

\* WebhookProcessor.retry_failed up to its first await inside _process_event.
RetryFailedCall_NoReset(s, event_id) ==
    LET started == [s EXCEPT !.task.op = "retry_failed",
                             !.task.event_id = event_id]
        i == FirstFailed(s.self, s.heap, event_id)
    IN  IF i = 0
        THEN [started EXCEPT !.task.pc = "done",
                             !.task.result = Returns([status |-> "not_found"])]
        ELSE LET ref == s.self.failed_events[i] IN
             ProcessEvent([started EXCEPT
                 !.self.failed_events = Pop(@, i),
                 !.task.ev = ref])

RetryFailedCall(s, event_id) ==
    LET started == [s EXCEPT !.task.op = "retry_failed",
                             !.task.event_id = event_id]
        i == FirstFailed(s.self, s.heap, event_id)
    IN  IF i = 0
        THEN [started EXCEPT !.task.pc = "done",
                             !.task.result = Returns([status |-> "not_found"])]
        ELSE LET ref == s.self.failed_events[i] IN
             ProcessEvent([started EXCEPT
                 !.self.failed_events = Pop(@, i),
                 !.task.ev = ref,
                 !.heap[ref].attempts = 0,
                 !.heap[ref].last_error = "None"])

\* The processor as one task sees it, and back.
View(t) == [self |-> wp, heap |-> heap, task |-> wp_task[t]]

\* Task t's step leaves the processor as `after`, computed once.
Commit(t, after) ==
    \E s \in {after} :
        /\ wp' = s.self
        /\ heap' = s.heap
        /\ wp_task' = [wp_task EXCEPT ![t] = s.task]

\* A call arrives in task t and runs to its first await.
Arrive(t, after) ==
    \E s \in {after} :
        /\ wp' = s.self
        /\ heap' = s.heap
        /\ wp_task' = [u \in Tasks |->
              IF u = t
              THEN [s.task EXCEPT !.solo =
                       \A v \in Tasks \ {t} : wp_task[v].pc \in {"idle", "done"}]
              ELSE IF wp_task[u].pc \in {"idle", "done"} THEN wp_task[u]
              ELSE [wp_task[u] EXCEPT !.solo = FALSE]]

OtherEntriesUnchanged ==
    UNCHANGED <<er, er_task, er_handled, route_result, notifications, outbox, dh,
                km, km_task, ob, ob_task>>

\* A request arrives at WebhookProcessor.process.
Process(t, req) ==
    /\ LowestFree(t)
    /\ calls < MaxCalls
    /\ calls' = calls + 1
    /\ Arrive(t, ProcessCall(View(t), req))
    /\ OtherEntriesUnchanged

\* An operator calls WebhookProcessor.retry_failed.
RetryFailed(t, event_id) ==
    /\ LowestFree(t)
    /\ calls < MaxCalls
    /\ calls' = calls + 1
    /\ Arrive(t, RetryFailedCall(View(t), event_id))
    /\ OtherEntriesUnchanged

\* The awaited handler returns.
HandlerReturns(t) ==
    /\ wp_task[t].pc = "handler"
    /\ Commit(t, HandlerReturned(View(t)))
    /\ UNCHANGED calls
    /\ OtherEntriesUnchanged

\* The awaited handler raises an Exception.
HandlerRaises(t) ==
    /\ wp_task[t].pc = "handler"
    /\ Commit(t, HandlerRaised(View(t)))
    /\ UNCHANGED calls
    /\ OtherEntriesUnchanged

\* The backoff sleep ends.
Wake(t) ==
    /\ wp_task[t].pc = "sleep"
    /\ Commit(t, Woke(View(t)))
    /\ UNCHANGED calls
    /\ OtherEntriesUnchanged

\* The caller has the result; the task is free for the next request.
ProcessorAnswers(t) ==
    /\ wp_task[t].pc = "done"
    /\ wp_task' = [wp_task EXCEPT ![t] = IdleTask]
    /\ UNCHANGED <<calls, wp, heap>>
    /\ OtherEntriesUnchanged

-----------------------------------------------------------------------------
(* EventRouter (events.py) *)

\* The Storage collaborator: a map from the keys present to their values.
EmptyStorage == [k \in {} |-> 0]

None == [none |-> TRUE]

\* storage.get(key) -> value | None
StorageGet(storage, key) ==
    IF key \in DOMAIN storage THEN storage[key] ELSE None

\* storage.put(key, value)
StoragePut(storage, key, value) ==
    [k \in DOMAIN storage \cup {key} |-> IF k = key THEN value ELSE storage[k]]

EventKey(id) == <<"event", id>>

FailedKey(id) == <<"failed", id>>

\* The handler objects create_event_router registers, with their event_types.
CheckoutEventHandler ==
    [name |-> "CheckoutEventHandler",
     event_types |-> <<"checkout.session.completed", "checkout.session.expired">>]

SubscriptionEventHandler ==
    [name |-> "SubscriptionEventHandler",
     event_types |-> <<"customer.subscription.created",
                       "customer.subscription.updated",
                       "customer.subscription.deleted",
                       "customer.subscription.trial_will_end">>]

InvoiceEventHandler ==
    [name |-> "InvoiceEventHandler",
     event_types |-> <<"invoice.paid", "invoice.payment_failed",
                       "invoice.upcoming", "invoice.marked_uncollectible">>]

DisputeEventHandler ==
    [name |-> "DisputeEventHandler",
     event_types |-> <<"charge.dispute.created", "charge.dispute.closed">>]

\* EventRouter.register_handler: self.handlers[event_type.value] = handler
RECURSIVE register_handler(_, _, _)
register_handler(handlers, handler, i) ==
    IF i > Len(handler.event_types) THEN handlers
    ELSE register_handler(
            [k \in DOMAIN handlers \cup {handler.event_types[i]} |->
                IF k = handler.event_types[i] THEN handler.name ELSE handlers[k]],
            handler, i + 1)

\* create_event_router
NewRouter ==
    [handlers |-> register_handler(
                    register_handler(
                      register_handler(
                        register_handler([k \in {} |-> ""], CheckoutEventHandler, 1),
                        SubscriptionEventHandler, 1),
                      InvoiceEventHandler, 1),
                    DisputeEventHandler, 1),
     registered |-> <<CheckoutEventHandler, SubscriptionEventHandler,
                      InvoiceEventHandler, DisputeEventHandler>>,
     storage  |-> EmptyStorage]

\* A second InvoiceEventHandler object, as an application may build and
\* register one beside the first (say, with another notification service).
SecondInvoiceEventHandler ==
    [name |-> "InvoiceEventHandler#2",
     event_types |-> InvoiceEventHandler.event_types]

\* router = EventRouter(webhook_secret, storage) followed by
\* router.register_handler(handler) for each handler of the list, in order;
\* `registered` keeps the list of the calls made.
RECURSIVE RegisterAll(_, _)
RegisterAll(handlers, list) ==
    IF list = <<>> THEN handlers
    ELSE RegisterAll(register_handler(handlers, Head(list), 1), Tail(list))

RouterWith(list) ==
    [handlers |-> RegisterAll([k \in {} |-> ""], list),
     registered |-> list,
     storage  |-> EmptyStorage]

\* A task of process_webhook: its position, its request, the handler it looked
\* up, what it did (handler invocations, storage gets and puts), the exception
\* it caught, its answer; `now`, the int(time.time()) it read when it built the
\* ProcessedEvent of line 466 or 486, before the put that stores it; and
\* `redelivery`: when the request arrived the handler had already run for its
\* event id and no other delivery was in flight; and `ledgered`: when the
\* request arrived the storage already held event:{id} for its event id.
RouterIdle ==
    [pc |-> "idle", req |-> NoRequest, redelivery |-> FALSE, ledgered |-> FALSE,
     handler |-> "None", invoked |-> 0, now |-> 0, data |-> None,
     gets |-> 0, puts |-> 0, error |-> "None", result |-> NoResult]

\* process_webhook, lines 437-447: verification, before any await.
RouterVerify(req) ==
    LET v == ConstructEvent(req) IN
    IF v = "ValueError"
    THEN [RouterIdle EXCEPT !.req = req, !.pc = "done",
            !.result = Returns([error |-> "Invalid payload", status |-> 400])]
    ELSE IF v = "SignatureVerificationError"
    THEN [RouterIdle EXCEPT !.req = req, !.pc = "done",
            !.result = Returns([error |-> "Invalid signature", status |-> 401])]
    ELSE [RouterIdle EXCEPT !.req = req, !.pc = "get"]

\* if existing: (a stored ledger entry is a non-empty dict)
Truthy_FailureRecordsOnly(value) == value # None /\ "error" \in DOMAIN value

Truthy(value) == value # None

\* process_webhook, lines 451-463: the answer of storage.get, up to await handler.handle.
RouterAfterGet_UnhandledLedgered(tk, existing, handlers) ==
    LET id == tk.req.id
        got == [tk EXCEPT !.gets = @ + 1]
    IN  IF Truthy(existing)
        THEN [got EXCEPT !.pc = "done",
                !.result = Returns([status |-> "already_processed", event_id |-> id])]
        ELSE IF TypeOf(id) \notin DOMAIN handlers
        THEN [got EXCEPT !.pc = "put"]
        ELSE [got EXCEPT !.pc = "handle", !.handler = handlers[TypeOf(id)],
                         !.invoked = @ + 1]

RouterAfterGet(tk, existing, handlers) ==
    LET id == tk.req.id
        got == [tk EXCEPT !.gets = @ + 1]
    IN  IF Truthy(existing)
        THEN [got EXCEPT !.pc = "done",
                !.result = Returns([status |-> "already_processed", event_id |-> id])]
        ELSE IF TypeOf(id) \notin DOMAIN handlers
        THEN [got EXCEPT !.pc = "done",
                !.result = Returns([status |-> "unhandled", event_type |-> TypeOf(id)])]
        ELSE [got EXCEPT !.pc = "handle", !.handler = handlers[TypeOf(id)],
                         !.invoked = @ + 1]

\* The ledger entry of lines 466-480.
LedgerEntry_Unsuccessful(id, now, data) ==
    [event_id |-> id, event_type |-> TypeOf(id), processed_at |-> now,
     success |-> FALSE, data |-> data]

LedgerEntry(id, now, data) ==
    [event_id |-> id, event_type |-> TypeOf(id), processed_at |-> now,
     success |-> TRUE, data |-> data]

\* The failure record of lines 486-499.
FailedEntry_NoError(id, now, error) ==
    [event_id |-> id, event_type |-> TypeOf(id), error |-> "None", failed_at |-> now]

FailedEntry(id, now, error) ==
    [event_id |-> id, event_type |-> TypeOf(id), error |-> error, failed_at |-> now]

RouterUnchanged ==
    UNCHANGED <<wp, heap, wp_task, route_result, notifications, outbox, dh,
                km, km_task, ob, ob_task>>

\* A request arrives at EventRouter.process_webhook.
ProcessWebhook(t, req) ==
    /\ LowestFree(t)
    /\ calls < MaxCalls
    /\ calls' = calls + 1
    /\ er_task' = [er_task EXCEPT ![t] =
            [RouterVerify(req) EXCEPT
                !.redelivery =
                    /\ er_handled[req.id] >= 1
                    /\ \A u \in Tasks : er_task[u].pc \in {"idle", "done"},
                !.ledgered =
                    /\ ConstructEvent(req) = "ok"
                    /\ EventKey(req.id) \in DOMAIN er.storage]]
    /\ UNCHANGED <<er, er_handled>>
    /\ RouterUnchanged

\* await self.storage.get(event_key) answers.
RouterGet(t) ==
    /\ er_task[t].pc = "get"
    /\ LET after == RouterAfterGet(er_task[t],
                        StorageGet(er.storage, EventKey(er_task[t].req.id)),
                        er.handlers)
       IN  /\ er_task' = [er_task EXCEPT ![t] = after]
           /\ er_handled' = [er_handled EXCEPT ![er_task[t].req.id] =
                                @ + (after.invoked - er_task[t].invoked)]
    /\ UNCHANGED <<calls, er>>
    /\ RouterUnchanged

\* await handler.handle(event) raises, for a handler that keeps its records in a
\* storage of its own: the except branch of line 484 builds the failure's
\* ProcessedEvent, with the time as it is now (lines 486-492).
RouterHandlerRaises(t) ==
    /\ er_task[t].pc = "handle"
    /\ er_task' = [er_task EXCEPT ![t].pc = "put_failed", ![t].error = "handler",
                                  ![t].now = calls]
    /\ UNCHANGED <<calls, er, er_handled>>
    /\ RouterUnchanged

\* await self.storage.put(event_key, ...) succeeds: lines 474-482.
RouterPut(t) ==
    /\ er_task[t].pc = "put"
    /\ er' = [er EXCEPT !.storage =
                StoragePut(@, EventKey(er_task[t].req.id),
                           LedgerEntry(er_task[t].req.id, er_task[t].now,
                                       er_task[t].data))]
    /\ er_task' = [er_task EXCEPT
            ![t].pc = "done",
            ![t].puts = @ + 1,
            ![t].result = Returns([status |-> "processed",
                                   event_id |-> er_task[t].req.id,
                                   result |-> er_task[t].data])]
    /\ UNCHANGED <<calls, er_handled>>
    /\ RouterUnchanged

\* await self.storage.put(event_key, ...) raises: the except branch of line 484
\* builds the failure's ProcessedEvent, with the time as it is now.
RouterPutRaises(t) ==
    /\ er_task[t].pc = "put"
    /\ er_task' = [er_task EXCEPT ![t].pc = "put_failed", ![t].error = "storage",
                                  ![t].now = calls]
    /\ UNCHANGED <<calls, er, er_handled>>
    /\ RouterUnchanged

\* await self.storage.put(f"failed:{event.id}", ...) succeeds, then raise:
\* lines 494-501.
RouterPutFailed(t) ==
    /\ er_task[t].pc = "put_failed"
    /\ er' = [er EXCEPT !.storage =
                StoragePut(@, FailedKey(er_task[t].req.id),
                           FailedEntry(er_task[t].req.id, er_task[t].now,
                                       er_task[t].error))]
    /\ er_task' = [er_task EXCEPT
            ![t].pc = "done",
            ![t].puts = @ + 1,
            ![t].result = Raises(er_task[t].error)]
    /\ UNCHANGED <<calls, er_handled>>
    /\ RouterUnchanged

\* await self.storage.put(f"failed:{event.id}", ...) raises inside the except
\* branch: nothing is stored, and the exception of this put leaves
\* process_webhook (line 494).
RouterPutFailedRaises(t) ==
    /\ er_task[t].pc = "put_failed"
    /\ er_task' = [er_task EXCEPT
            ![t].pc = "done",
            ![t].result = Raises("storage")]
    /\ UNCHANGED <<calls, er, er_handled>>
    /\ RouterUnchanged

\* The caller has the result or the exception; the task is free again, and the
\* frame of its handle() call, if it made one, is gone.
RouterAnswers(t) ==
    /\ er_task[t].pc = "done"
    /\ er_task' = [er_task EXCEPT ![t] = RouterIdle]
    /\ dh' = [dh EXCEPT ![t] = [active |-> FALSE, id |-> "none", method |-> "none",
                                awaits |-> <<>>, log |-> <<>>,
                                result |-> [handled |-> FALSE],
                                outcome |-> "none", now |-> 0]]
    /\ UNCHANGED <<calls, er, er_handled>>
    /\ UNCHANGED <<wp, heap, wp_task, route_result, notifications, outbox,
                   km, km_task, ob, ob_task>>

-----------------------------------------------------------------------------
(* Domain handlers and NotificationService (events.py) *)

\* An optional string attribute is set: neither None nor the empty string.
Present(value) == value \notin {"None", ""}

\* previous_attributes without any key (None or {}: both falsy).
NoPrevious == [k \in {} |-> ""]

\* event.data.object of the events delivered.
Invoice(customer_email) ==
    [id |-> "in_1", customer |-> "cus_1", amount_paid |-> 2000,
     currency |-> "usd", customer_email |-> customer_email,
     hosted_invoice_url |-> "https://pay.example/in_1"]

Subscription(status) == [id |-> "sub_1", customer |-> "cus_1", status |-> status]

Dispute ==
    [id |-> "dp_1", charge |-> "ch_1", amount |-> 5000, reason |-> "fraudulent",
     status |-> "needs_response", evidence_details |-> [due_by |-> 1700000000]]

Session(customer_details) ==
    [id |-> "cs_1", customer_details |-> customer_details, amount_total |-> 4900]

\* event.data of each event id: object and previous_attributes.
DataOf(id) ==
    CASE id = "evt_expired_email" ->
            [object |-> Session([email |-> "buyer@example.com"]),
             previous_attributes |-> NoPrevious]
      [] id = "evt_expired_no_details" ->
            [object |-> Session(None), previous_attributes |-> NoPrevious]
      [] id = "evt_expired_empty_email" ->
            [object |-> Session([email |-> ""]), previous_attributes |-> NoPrevious]
      [] id = "evt_1" ->
            [object |-> Invoice("cus_1@example.com"), previous_attributes |-> NoPrevious]
      [] id = "evt_paid_no_email" ->
            [object |-> Invoice("None"), previous_attributes |-> NoPrevious]
      [] id = "evt_dispute" ->
            [object |-> Dispute, previous_attributes |-> NoPrevious]
      [] id = "evt_sub_active_past_due" ->
            [object |-> Subscription("past_due"),
             previous_attributes |-> [status |-> "active"]]
      [] id = "evt_sub_trialing_past_due" ->
            [object |-> Subscription("past_due"),
             previous_attributes |-> [status |-> "trialing"]]
      [] id = "evt_sub_active_canceled" ->
            [object |-> Subscription("canceled"),
             previous_attributes |-> [status |-> "active"]]
      [] id = "evt_sub_plan_active_past_due" ->
            [object |-> Subscription("past_due"),
             previous_attributes |-> [status |-> "active", items |-> "items"]]
      [] id = "evt_sub_plan" ->
            [object |-> Subscription("past_due"),
             previous_attributes |-> [items |-> "items"]]
      [] id = "evt_sub_no_previous" ->
            [object |-> Subscription("past_due"), previous_attributes |-> NoPrevious]
      [] OTHER ->
            [object |-> [id |-> "cus_1"], previous_attributes |-> NoPrevious]

\* The collaborator calls a handler makes, in order.  storage.put and
\* email_sender.send are awaited; stripe.Customer.retrieve is an ordinary call,
\* made in the same step as what precedes it.  The dict of a put is built when
\* the put is called: `stamp` names the field that then takes
\* datetime.utcnow().isoformat().
PutStep(key, value, stamp) ==
    [op |-> "put", key |-> key, value |-> value, stamp |-> stamp]

RetrieveStep(customer) == [op |-> "retrieve", customer |-> customer]

\* email_sender.send(to, subject, template, data); the subject line is left out.
SendStep(to, template, data) ==
    [op |-> "send", to |-> to, template |-> template, data |-> data]

\* NotificationService.send_receipt
send_receipt(email, invoice_id, amount, hosted_url) ==
    SendStep(email, "receipt",
             [invoice_id |-> invoice_id, amount |-> amount, hosted_url |-> hosted_url])

\* NotificationService.send_payment_failed
send_payment_failed(email, invoice_id, subscription_id, amount) ==
    SendStep(email, "payment_failed",
             [invoice_id |-> invoice_id, subscription_id |-> subscription_id,
              amount |-> amount])

\* NotificationService.send_admin_alert
send_admin_alert(message) ==
    SendStep("admin@example.com", "admin_alert", [message |-> message])

\* stripe.Customer.retrieve(customer).email
CustomerEmail(customer) == customer \o "@example.com"

\* CheckoutEventHandler._handle_expired
CheckoutEventHandler_handle_expired_AnyDetails(session) ==
    [steps |->
        IF session.customer_details # None
        THEN <<PutStep(<<"abandoned", session.id>>,
                       [email |-> session.customer_details.email,
                        amount |-> session.amount_total],
                       "expired_at")>>
        ELSE <<>>,
     result |-> [handled |-> TRUE, action |-> "tracked_abandoned"]]

CheckoutEventHandler_handle_expired(session) ==
    [steps |->
        IF session.customer_details # None /\ Present(session.customer_details.email)
        THEN <<PutStep(<<"abandoned", session.id>>,
                       [email |-> session.customer_details.email,
                        amount |-> session.amount_total],
                       "expired_at")>>
        ELSE <<>>,
     result |-> [handled |-> TRUE, action |-> "tracked_abandoned"]]

\* InvoiceEventHandler._handle_paid
InvoiceEventHandler_handle_paid_KeyedByCustomer(invoice, notifs) ==
    [steps |->
        <<PutStep(<<"payment", invoice.customer>>,
                  [customer_id |-> invoice.customer, amount |-> invoice.amount_paid,
                   currency |-> invoice.currency],
                  "paid_at")>>
        \o (IF notifs /\ Present(invoice.customer_email)
            THEN <<send_receipt(invoice.customer_email, invoice.id,
                                invoice.amount_paid, invoice.hosted_invoice_url)>>
            ELSE <<>>),
     result |-> [handled |-> TRUE, amount_paid |-> invoice.amount_paid]]

InvoiceEventHandler_handle_paid(invoice, notifs) ==
    [steps |->
        <<PutStep(<<"payment", invoice.id>>,
                  [customer_id |-> invoice.customer, amount |-> invoice.amount_paid,
                   currency |-> invoice.currency],
                  "paid_at")>>
        \o (IF notifs /\ Present(invoice.customer_email)
            THEN <<send_receipt(invoice.customer_email, invoice.id,
                                invoice.amount_paid, invoice.hosted_invoice_url)>>
            ELSE <<>>),
     result |-> [handled |-> TRUE, amount_paid |-> invoice.amount_paid]]

\* f"status:{old_status}->{new_status}"
StatusChange(old_status, new_status) ==
    "status:" \o old_status \o "->" \o new_status

\* SubscriptionEventHandler._handle_updated
SubscriptionEventHandler_handle_updated_AnyPastDue(subscription, previous, notifs) ==
    LET changes ==
            (IF "items" \in DOMAIN previous THEN <<"plan_changed">> ELSE <<>>)
            \o (IF "status" \in DOMAIN previous
                THEN <<StatusChange(previous.status, subscription.status)>>
                ELSE <<>>)
        notify == subscription.status = "past_due" /\ notifs
    IN  [steps |->
            (IF notify
             THEN <<RetrieveStep(subscription.customer),
                    send_payment_failed(CustomerEmail(subscription.customer),
                                        "None", subscription.id, "None")>>
             ELSE <<>>)
            \o <<PutStep(<<"subscription", subscription.id>>,
                         [customer_id |-> subscription.customer,
                          status |-> subscription.status,
                          changes |-> changes],
                         "updated_at")>>,
         result |-> [handled |-> TRUE, changes |-> changes]]

SubscriptionEventHandler_handle_updated(subscription, previous, notifs) ==
    LET changes ==
            (IF "items" \in DOMAIN previous THEN <<"plan_changed">> ELSE <<>>)
            \o (IF "status" \in DOMAIN previous
                THEN <<StatusChange(previous.status, subscription.status)>>
                ELSE <<>>)
        notify ==
            /\ "status" \in DOMAIN previous
            /\ previous.status = "active"
            /\ subscription.status = "past_due"
            /\ notifs
    IN  [steps |->
            (IF notify
             THEN <<RetrieveStep(subscription.customer),
                    send_payment_failed(CustomerEmail(subscription.customer),
                                        "None", subscription.id, "None")>>
             ELSE <<>>)
            \o <<PutStep(<<"subscription", subscription.id>>,
                         [customer_id |-> subscription.customer,
                          status |-> subscription.status,
                          changes |-> changes],
                         "updated_at")>>,
         result |-> [handled |-> TRUE, changes |-> changes]]

\* DisputeEventHandler._handle_created
DisputeEventHandler_handle_created_AlertFirst(dispute, notifs) ==
    [steps |->
        (IF notifs
         THEN <<send_admin_alert(<<"Dispute reason", dispute.reason,
                                   "Evidence due by", dispute.evidence_details.due_by>>)>>
         ELSE <<>>)
        \o <<PutStep(<<"dispute", dispute.id>>,
                     [charge_id |-> dispute.charge, amount |-> dispute.amount,
                      reason |-> dispute.reason, status |-> dispute.status,
                      evidence_due_by |-> dispute.evidence_details.due_by],
                     "created_at")>>,
     result |-> [handled |-> TRUE, action |-> "dispute_alert_sent"]]

DisputeEventHandler_handle_created(dispute, notifs) ==
    [steps |->
        <<PutStep(<<"dispute", dispute.id>>,
                  [charge_id |-> dispute.charge, amount |-> dispute.amount,
                   reason |-> dispute.reason, status |-> dispute.status,
                   evidence_due_by |-> dispute.evidence_details.due_by],
                  "created_at")>>
        \o (IF notifs
            THEN <<send_admin_alert(<<"Dispute reason", dispute.reason,
                                      "Evidence due by", dispute.evidence_details.due_by>>)>>
            ELSE <<>>),
     result |-> [handled |-> TRUE, action |-> "dispute_alert_sent"]]

\* handler.handle(event) of the registered handler, for the event types delivered:
\* the method it dispatches to.
MethodOf(handler, type) ==
    CASE handler \in {InvoiceEventHandler.name, SecondInvoiceEventHandler.name}
            /\ type = "invoice.paid" -> "_handle_paid"
      [] handler = "CheckoutEventHandler" /\ type = "checkout.session.expired"
            -> "_handle_expired"
      [] handler = "SubscriptionEventHandler" /\ type = "customer.subscription.updated"
            -> "_handle_updated"
      [] handler = "DisputeEventHandler" /\ type = "charge.dispute.created"
            -> "_handle_created"
      [] OTHER -> "none"

Handle(handler, id, notifs) ==
    LET data == DataOf(id)
        method == MethodOf(handler, TypeOf(id))
    IN  CASE method = "_handle_paid" ->
                InvoiceEventHandler_handle_paid(data.object, notifs)
          [] method = "_handle_updated" ->
                SubscriptionEventHandler_handle_updated(
                    data.object, data.previous_attributes, notifs)
          [] method = "_handle_created" ->
                DisputeEventHandler_handle_created(data.object, notifs)
          [] method = "_handle_expired" ->
                CheckoutEventHandler_handle_expired(data.object)
          [] OTHER -> [steps |-> <<>>, result |-> [handled |-> FALSE]]

\* The frame of a handle() call: the event, the method, the calls still to
\* make from the await it is waiting in (awaits), what each completed call did
\* (log), the value to return, how the call ended, and the time of its latest
\* step.
NoFrame ==
    [active |-> FALSE, id |-> "none", method |-> "none", awaits |-> <<>>,
     log |-> <<>>, result |-> [handled |-> FALSE], outcome |-> "none", now |-> 0]

HandlerUnchanged ==
    UNCHANGED <<calls, wp, heap, wp_task, er_handled, route_result, notifications,
                km, km_task, ob, ob_task>>

\* The dict of a put, built as the put is called: the stamped field takes the
\* time as it is now.
Built(step, now) ==
    [op |-> "put", key |-> step.key,
     value |-> [f \in DOMAIN step.value \cup {step.stamp} |->
                   IF f = step.stamp THEN now ELSE step.value[f]]]

\* The handler runs on from `steps` to its next await, to its return, or to the
\* exception of a customer lookup: a lookup is made on the way (and answers,
\* or raises when lookup_raises), a put is called with its dict built now.
RECURSIVE RunToAwait(_, _, _, _)
RunToAwait(steps, log, now, lookup_raises) ==
    IF steps = <<>>
    THEN [awaits |-> <<>>, log |-> log, outcome |-> "returned"]
    ELSE IF Head(steps).op = "retrieve"
    THEN IF lookup_raises
         THEN [awaits |-> <<>>, log |-> Append(log, <<"retrieve", "raised">>),
               outcome |-> "raised"]
         ELSE RunToAwait(Tail(steps), Append(log, <<"retrieve", "returned">>),
                         now, lookup_raises)
    ELSE IF Head(steps).op = "put"
    THEN [awaits |-> <<Built(Head(steps), now)>> \o Tail(steps), log |-> log,
          outcome |-> "running"]
    ELSE [awaits |-> steps, log |-> log, outcome |-> "running"]

\* process_webhook after the handler ran on: still in await handler.handle, or
\* past it with the result and the ProcessedEvent built (lines 463-472), or in
\* the except branch of line 484 with the failure's ProcessedEvent built
\* (486-492).
AfterHandler(tk, outcome, result, now) ==
    CASE outcome = "returned" -> [tk EXCEPT !.pc = "put", !.now = now, !.data = result]
      [] outcome = "raised" ->
            [tk EXCEPT !.pc = "put_failed", !.error = "handler", !.now = now]
      [] OTHER -> tk

\* await self.storage.get(event_key) answers, on the router create_event_router
\* built: lines 451-463 as in RouterGet, and when a handler is found
\* process_webhook enters handler.handle(event) in the same step, up to the
\* handler's first await (a handler without await returns at once; one whose
\* customer lookup raises leaves by that exception).
RouterGetThenHandle(t) ==
    /\ er_task[t].pc = "get"
    /\ \E lookup_raises \in BOOLEAN :
       LET id == er_task[t].req.id
           after == RouterAfterGet(er_task[t], StorageGet(er.storage, EventKey(id)),
                                   er.handlers)
           call == Handle(after.handler, id, notifications)
           run == RunToAwait(call.steps, <<>>, calls, lookup_raises)
       IN  /\ er_handled' = [er_handled EXCEPT ![id] =
                                @ + (after.invoked - er_task[t].invoked)]
           /\ IF after.pc = "handle"
              THEN /\ dh' = [dh EXCEPT ![t] =
                            [active |-> run.outcome = "running", id |-> id,
                             method |-> MethodOf(after.handler, TypeOf(id)),
                             awaits |-> run.awaits, log |-> run.log,
                             result |-> call.result,
                             outcome |-> run.outcome,
                             now |-> calls]]
                   /\ er_task' = [er_task EXCEPT ![t] =
                            AfterHandler(after, run.outcome, call.result, calls)]
              ELSE /\ dh' = dh
                   /\ er_task' = [er_task EXCEPT ![t] = after]
    /\ UNCHANGED <<er, outbox>>
    /\ UNCHANGED <<calls, wp, heap, wp_task, route_result, notifications,
                   km, km_task, ob, ob_task>>

\* The collaborator call the handler waits for completes: storage.put stores,
\* email_sender.send delivers; the handler runs on to its next await.  After
\* its last await the handler returns and process_webhook goes on to the
\* ledger write.
AwaitReturns(t) ==
    /\ er_task[t].pc = "handle"
    /\ dh[t].active
    /\ \E lookup_raises \in BOOLEAN :
       LET step == Head(dh[t].awaits)
           run == RunToAwait(Tail(dh[t].awaits),
                             Append(dh[t].log, <<step.op, "returned">>),
                             calls, lookup_raises)
       IN  /\ er' = IF step.op = "put"
                    THEN [er EXCEPT !.storage = StoragePut(@, step.key, step.value)]
                    ELSE er
           /\ outbox' = IF step.op = "send"
                        THEN Append(outbox, [to |-> step.to, template |-> step.template,
                                             data |-> step.data])
                        ELSE outbox
           /\ dh' = [dh EXCEPT
                  ![t].awaits = run.awaits,
                  ![t].log = run.log,
                  ![t].active = run.outcome = "running",
                  ![t].outcome = run.outcome,
                  ![t].now = calls]
           /\ er_task' = [er_task EXCEPT ![t] =
                    AfterHandler(@, run.outcome, dh[t].result, calls)]
    /\ HandlerUnchanged

\* The collaborator call raises: the exception leaves the handler, and
\* process_webhook catches it in the except branch of line 484.
AwaitRaises(t) ==
    /\ er_task[t].pc = "handle"
    /\ dh[t].active
    /\ dh' = [dh EXCEPT
           ![t].log = Append(@, <<Head(dh[t].awaits).op, "raised">>),
           ![t].active = FALSE,
           ![t].outcome = "raised",
           ![t].now = calls]
    /\ er_task' = [er_task EXCEPT ![t] = AfterHandler(@, "raised", dh[t].result, calls)]
    /\ UNCHANGED <<er, outbox>>
    /\ HandlerUnchanged

\* await handler.handle(event) returns its result, for a handler that keeps its
\* records in a storage of its own: `result` is what the handler's method
\* returns for the event, and the ProcessedEvent is built, with the time as it
\* is now: lines 463-472.
RouterHandlerReturns(t) ==
    /\ er_task[t].pc = "handle"
    /\ er_task' = [er_task EXCEPT
            ![t].pc = "put",
            ![t].now = calls,
            ![t].data = Handle(er_task[t].handler, er_task[t].req.id,
                               notifications).result]
    /\ UNCHANGED <<calls, er, er_handled>>
    /\ RouterUnchanged

-----------------------------------------------------------------------------
(* The /webhooks route (main.py) *)

\* The dispatch table of handle_webhook, lines 428-436.
RouteHandlers ==
    {"payment_intent.succeeded", "payment_intent.failed",
     "customer.subscription.created", "customer.subscription.updated",
     "customer.subscription.deleted", "invoice.paid", "invoice.payment_failed"}

\* handle_webhook: verify, dispatch to the module-level handler, acknowledge.
RouteAnswer(req) ==
    LET v == ConstructEvent(req) IN
    IF v = "ValueError" THEN HTTPException(400, "Invalid payload")
    ELSE IF v = "SignatureVerificationError"
    THEN HTTPException(400, "Invalid signature")
    ELSE Returns([received |-> TRUE, type |-> TypeOf(req.id),
                  dispatched |-> TypeOf(req.id) \in RouteHandlers])

\* A request arrives at POST /webhooks.
HandleWebhook(req) ==
    /\ calls < MaxCalls
    /\ calls' = calls + 1
    /\ route_result' = [req |-> req, result |-> RouteAnswer(req)]
    /\ UNCHANGED <<wp, heap, wp_task, er, er_task, er_handled,
                   notifications, outbox, dh, km, km_task, ob, ob_task>>

-----------------------------------------------------------------------------
(* APIKeyManager (api_keys.py) *)

\* The customers keys are issued to.
Customers == {"cus_1"}

\* KeyStatus
ACTIVE == "active"

REVOKED == "revoked"

EXPIRED == "expired"

RATE_LIMITED == "rate_limited"

\* APIKeyManager.live_prefix / test_prefix
LivePrefix == "sk_live_"

TestPrefix == "sk_test_"

\* Optional[int] = None of the APIKey timestamps; the clock is positive, and the
\* code tests expires_at by truth value.
NoTime == 0

\* Seconds of a day, in expires_at = now + expires_in_days * 86400.
SecondsPerDay == 86400

\* secrets.token_urlsafe / secrets.token_hex: the n-th draw is a value no other
\* draw returns.  A raw key is its prefix followed by the token; the token is
\* kept as its first eight characters and its rest.
RawKey(prefix, n) == [prefix |-> prefix, random |-> <<n, n>>]

KeyId(n) == <<"key_", n>>

\* A key that does not start with either prefix, and a well-formed key that was
\* never issued.
ForeignRawKey == [prefix |-> "pk_live_", random |-> <<0, 0>>]

UnissuedRawKey == RawKey(LivePrefix, 0)

UnknownKeyId == KeyId(0)

\* raw_key[:16]: the prefix and the first eight characters of the token.
KeyPrefixOf(raw_key) == <<raw_key.prefix, raw_key.random[1]>>

\* _hash_key: SHA-256 of the raw key, taken as collision free.
HashKey(raw_key) == [sha256 |-> raw_key]

\* The empty string _dict_to_key puts where the hash would be: a loaded key
\* carries no hash.
NoKeyHash == [sha256 |-> None]

\* Storage keys.
ApiKeyKey(key_id) == <<"apikey", key_id>>

CustomerKeysKey(customer_id) == <<"customer_keys", customer_id>>

HashMappingKey(key_hash) == <<"apikey_hash", key_hash>>

\* storage.get returned a value (`if not data`, `if not key_id`).
Stored(storage, key) == key \in DOMAIN storage

NoMetadata == [k \in {} |-> ""]

\* {**metadata, key: value} and dict.update
MetadataWith(metadata, key, value) ==
    [k \in DOMAIN metadata \cup {key} |-> IF k = key THEN value ELSE metadata[k]]

\* The APIKey object create_key builds.
NewAPIKey(n, now, customer_id, name, scopes, expires_in_days, rate_limit, is_test, metadata) ==
    LET raw_key == RawKey(IF is_test THEN TestPrefix ELSE LivePrefix, n) IN
    [id            |-> KeyId(n),
     customer_id   |-> customer_id,
     name          |-> name,
     key_prefix    |-> KeyPrefixOf(raw_key),
     key_hash      |-> HashKey(raw_key),
     scopes        |-> scopes,
     created_at    |-> now,
     expires_at    |-> IF expires_in_days # 0
                       THEN now + expires_in_days * SecondsPerDay ELSE NoTime,
     last_used_at  |-> NoTime,
     status        |-> ACTIVE,
     rate_limit    |-> rate_limit,
     request_count |-> 0,
     metadata      |-> metadata]

\* APIKey.to_dict, as _store_key stores it: every field but key_hash.
ToDict(api_key) ==
    [f \in DOMAIN api_key \ {"key_hash"} |-> api_key[f]]

\* _dict_to_key: key_hash is data.get("key_hash", "").
DictToKey(data) ==
    [f \in DOMAIN data \cup {"key_hash"} |->
        IF f = "key_hash" THEN NoKeyHash ELSE data[f]]

\* The manager over an empty storage.  `minted` counts the draws of the random
\* source, `calls` the calls started (the clock of time.time()), `limit` is
\* the number of calls the manager is to serve; `valid`,
\* `revoked` and `updated` record, per key id, what callers were told: how
\* many validate_key calls returned valid since the last reset_rate_limit,
\* whether a revoke_key that overlapped no other call returned True, whether
\* update_key stored the key.
NewKeyManager ==
    [storage |-> EmptyStorage,
     minted  |-> 0,
     calls   |-> 0,
     limit   |-> MaxKeyCalls,
     valid   |-> [k \in {} |-> 0],
     revoked |-> {},
     updated |-> {}]

\* A task that runs no call.  pc: idle | hash_get | key_get | store_put |
\* list_get | list_put | hash_put | done.
KeyIdle ==
    [pc        |-> "idle",
     op        |-> "None",
     solo      |-> TRUE,
     raw_key   |-> ForeignRawKey,
     required_scopes |-> <<>>,
     key_id    |-> UnknownKeyId,
     changes   |-> [name |-> "", scopes |-> <<>>, rate_limit |-> 0],
     is_test   |-> FALSE,
     api_key   |-> None,
     old_key   |-> None,
     new_raw_key |-> None,
     new_api_key |-> None,
     customer_keys |-> <<>>,
     then      |-> "None",
     result    |-> NoResult]

KeyInFlight(task) == task.pc \notin {"idle", "done"}

\* The task returns.
KeyFinish(task, value) == [task EXCEPT !.pc = "done", !.result = Returns(value)]

\* Admin has all scopes; otherwise the first required scope the key lacks.
MissingScopes(api_key, required_scopes) ==
    IF "admin" \in {api_key.scopes[i] : i \in 1..Len(api_key.scopes)} THEN <<>>
    ELSE SelectSeq(required_scopes,
                   LAMBDA scope : scope \notin {api_key.scopes[i] : i \in 1..Len(api_key.scopes)})

\* _store_key(api_key) begins; `then` names where the caller resumes.
StoreKey(task, api_key, then) ==
    [task EXCEPT !.pc = "store_put", !.api_key = api_key, !.then = then]

\* create_key up to its first await: the key object is built from fresh
\* randomness and _store_key begins.
CreateKeyCall(task, n, now, customer_id, name, scopes, expires_in_days, rate_limit, is_test, metadata) ==
    LET api_key == NewAPIKey(n, now, customer_id, name, scopes, expires_in_days,
                             rate_limit, is_test, metadata) IN
    [StoreKey(task, api_key, "hash_put") EXCEPT
        !.new_raw_key = RawKey(IF is_test THEN TestPrefix ELSE LivePrefix, n),
        !.new_api_key = api_key]

\* validate_key from the loaded key to its return or to its _store_key.
ValidateLoaded(task, api_key, now) ==
    IF api_key.status = REVOKED
    THEN KeyFinish(task, <<FALSE, api_key, "Key has been revoked">>)
    ELSE IF api_key.expires_at # NoTime /\ api_key.expires_at < now
    THEN StoreKey(task, [api_key EXCEPT !.status = EXPIRED], "expired")
    ELSE IF api_key.request_count >= api_key.rate_limit
    THEN KeyFinish(task, <<FALSE, api_key, "Rate limit exceeded">>)
    ELSE IF MissingScopes(api_key, task.required_scopes) # <<>>
    THEN KeyFinish(task, <<FALSE, api_key,
                           "Missing required scope: "
                             \o MissingScopes(api_key, task.required_scopes)[1]>>)
    ELSE StoreKey(task, [api_key EXCEPT !.last_used_at = now,
                                         !.request_count = @ + 1], "valid")

\* reset_rate_limit from the loaded key to its _store_key.
ResetLoaded_Reactivates(task, api_key) ==
    StoreKey(task, [api_key EXCEPT !.request_count = 0, !.status = ACTIVE], "reset")

ResetLoaded(task, api_key) ==
    StoreKey(task,
             [api_key EXCEPT !.request_count = 0,
                             !.status = IF @ = RATE_LIMITED THEN ACTIVE ELSE @],
             "reset")

\* update_key from the loaded key to its _store_key; a falsy argument leaves
\* the field.  (metadata is not passed.)
UpdateLoaded(task, api_key) ==
    StoreKey(task,
             [api_key EXCEPT
                !.name = IF task.changes.name # "" THEN task.changes.name ELSE @,
                !.scopes = IF task.changes.scopes # <<>> THEN task.changes.scopes ELSE @,
                !.rate_limit = IF task.changes.rate_limit # 0
                               THEN task.changes.rate_limit ELSE @],
             "updated")

\* rotate_key from the loaded old key into create_key.
RotateLoaded_DefaultRateLimit(task, old_key, n, now) ==
    [CreateKeyCall(task, n, now, old_key.customer_id, old_key.name \o " (rotated)",
                   old_key.scopes, 0, 1000, task.is_test,
                   MetadataWith(old_key.metadata, "rotated_from", old_key.id))
        EXCEPT !.old_key = old_key]

RotateLoaded(task, old_key, n, now) ==
    [CreateKeyCall(task, n, now, old_key.customer_id, old_key.name \o " (rotated)",
                   old_key.scopes, 0, old_key.rate_limit, task.is_test,
                   MetadataWith(old_key.metadata, "rotated_from", old_key.id))
        EXCEPT !.old_key = old_key]

\* What a call returns when _get_key_by_id / _get_key_by_hash found nothing.
\* The revoke_key inside rotate_key returns False and rotate_key goes on to
\* return the new key.
NotFound(task) ==
    CASE task.op = "validate_key" -> KeyFinish(task, <<FALSE, None, "Key not found">>)
      [] task.op = "revoke_key" -> KeyFinish(task, FALSE)
      [] task.op = "reset_rate_limit" -> KeyFinish(task, FALSE)
      [] task.op = "update_key" -> KeyFinish(task, None)
      [] task.op = "rotate_key" ->
            IF task.old_key = None THEN KeyFinish(task, <<None, None>>)
            ELSE KeyFinish(task, <<task.new_raw_key, task.new_api_key>>)

\* The caller resumes after _get_key_by_id returned the key.
Loaded(task, api_key, n, now) ==
    CASE task.op = "validate_key" -> ValidateLoaded(task, api_key, now)
      [] task.op = "revoke_key" ->
            StoreKey(task, [api_key EXCEPT !.status = REVOKED], "revoked")
      [] task.op = "reset_rate_limit" -> ResetLoaded(task, api_key)
      [] task.op = "update_key" -> UpdateLoaded(task, api_key)
      [] task.op = "rotate_key" ->
            IF task.old_key = None THEN RotateLoaded(task, api_key, n, now)
            ELSE StoreKey(task, [api_key EXCEPT !.status = REVOKED], "revoked")

\* The caller resumes after _store_key returned.
StoreKeyReturned(task) ==
    CASE task.then = "valid" -> KeyFinish(task, <<TRUE, task.api_key, "None">>)
      [] task.then = "expired" -> KeyFinish(task, <<FALSE, task.api_key, "Key has expired">>)
      [] task.then = "revoked" ->
            IF task.op = "rotate_key"
            THEN KeyFinish(task, <<task.new_raw_key, task.new_api_key>>)
            ELSE KeyFinish(task, TRUE)
      [] task.then = "reset" -> KeyFinish(task, TRUE)
      [] task.then = "updated" -> KeyFinish(task, task.api_key)
      [] task.then = "hash_put" -> [task EXCEPT !.pc = "hash_put"]

\* What the callers were told, brought up to date when `task` became `after`.
Told(manager, task, after) ==
    LET returned == after.pc = "done" /\ task.pc # "done"
        count(id) == IF id \in DOMAIN manager.valid THEN manager.valid[id] ELSE 0
        counted(id, n) ==
            [k \in DOMAIN manager.valid \cup {id} |->
                IF k = id THEN n ELSE manager.valid[k]]
    IN
    [manager EXCEPT
        !.valid =
            IF returned /\ after.op = "validate_key" /\ task.then = "valid"
                        /\ task.pc \in {"list_get", "list_put"}
            THEN counted(task.api_key.id, count(task.api_key.id) + 1)
            ELSE IF returned /\ after.op = "reset_rate_limit"
            THEN counted(after.key_id, 0)
            ELSE @,
        !.revoked =
            IF /\ task.then = "revoked"
               /\ task.pc \in {"list_get", "list_put"}
               /\ after.pc = "done"
               /\ after.solo
            THEN @ \cup {task.api_key.id}
            ELSE @]

KeyWebhooksUnchanged ==
    UNCHANGED <<calls, wp, heap, wp_task, er, er_task, er_handled, route_result,
                notifications, outbox, dh, ob, ob_task>>

\* A call begins on task t: the task must be free and the budget not spent.  A
\* call that begins while another is in flight overlaps it.
KeyCallBegins(t, frame) ==
    /\ ~KeyInFlight(km_task[t])
    /\ km.calls < km.limit
    /\ LET solo == \A u \in Tasks \ {t} : ~KeyInFlight(km_task[u])
           after == [frame EXCEPT !.solo = solo]
       IN
       /\ km_task' = [u \in Tasks |->
                        IF u = t THEN after
                        ELSE IF KeyInFlight(km_task[u])
                        THEN [km_task[u] EXCEPT !.solo = FALSE]
                        ELSE km_task[u]]
       /\ km' = [Told(km, km_task[t], after) EXCEPT
                    !.calls = @ + 1,
                    !.minted = IF frame.op = "create_key" THEN @ + 1 ELSE @,
                    !.valid = IF frame.op = "reset_rate_limit"
                              THEN [k \in DOMAIN @ \cup {frame.key_id} |->
                                       IF k = frame.key_id THEN 0 ELSE @[k]]
                              ELSE @]
    /\ KeyWebhooksUnchanged

\* create_key(customer_id, name, scopes, rate_limit=rate_limit)
CreateKey(t, customer_id, rate_limit) ==
    KeyCallBegins(t,
        [CreateKeyCall(KeyIdle, km.minted + 1, km.calls + 1, customer_id, "key",
                       <<"read">>, 0, rate_limit, FALSE, NoMetadata)
            EXCEPT !.op = "create_key"])

\* validate_key(raw_key, required_scopes)
ValidateKey(t, raw_key, required_scopes) ==
    KeyCallBegins(t,
        IF raw_key.prefix \notin {LivePrefix, TestPrefix}
        THEN KeyFinish([KeyIdle EXCEPT !.op = "validate_key", !.raw_key = raw_key,
                                       !.required_scopes = required_scopes],
                       <<FALSE, None, "Invalid key format">>)
        ELSE [KeyIdle EXCEPT !.op = "validate_key", !.raw_key = raw_key,
                             !.required_scopes = required_scopes,
                             !.pc = "hash_get"])

\* revoke_key(key_id), reset_rate_limit(key_id), rotate_key(key_id)
KeyCallById(t, op, key_id) ==
    KeyCallBegins(t, [KeyIdle EXCEPT !.op = op, !.key_id = key_id, !.pc = "key_get"])

RevokeKey(t, key_id) == KeyCallById(t, "revoke_key", key_id)

ResetRateLimit(t, key_id) == KeyCallById(t, "reset_rate_limit", key_id)

RotateKey(t, key_id) == KeyCallById(t, "rotate_key", key_id)

\* update_key(key_id, name, scopes, rate_limit)
UpdateKey(t, key_id, changes) ==
    KeyCallBegins(t, [KeyIdle EXCEPT !.op = "update_key", !.key_id = key_id,
                                     !.changes = changes, !.pc = "key_get"])

\* A step of task t that takes it to `after` and the storage to `storage`.
KeyStep(t, after, storage) ==
    /\ km_task' = [km_task EXCEPT ![t] = after]
    /\ km' = [Told(km, km_task[t], after) EXCEPT
                !.storage = storage,
                !.minted = IF after.new_api_key # km_task[t].new_api_key
                           THEN @ + 1 ELSE @,
                !.updated = IF km_task[t].pc = "store_put" /\ after.op = "update_key"
                            THEN @ \cup {after.key_id} ELSE @]
    /\ KeyWebhooksUnchanged

\* _get_key_by_hash: await self.storage.get(f"apikey_hash:{key_hash}")
HashGet(t) ==
    /\ km_task[t].pc = "hash_get"
    /\ LET key == HashMappingKey(HashKey(km_task[t].raw_key)) IN
       KeyStep(t,
               IF Stored(km.storage, key)
               THEN [km_task[t] EXCEPT !.pc = "key_get", !.key_id = km.storage[key]]
               ELSE NotFound(km_task[t]),
               km.storage)

\* _get_key_by_id: await self.storage.get(f"apikey:{key_id}"), and the caller
\* up to its next await.
KeyGet(t) ==
    /\ km_task[t].pc = "key_get"
    /\ LET key == ApiKeyKey(km_task[t].key_id) IN
       KeyStep(t,
               IF Stored(km.storage, key)
               THEN Loaded(km_task[t], DictToKey(km.storage[key]),
                           km.minted + 1, km.calls)
               ELSE NotFound(km_task[t]),
               km.storage)

\* _store_key: await self.storage.put(f"apikey:{api_key.id}", key_data)
StorePut(t) ==
    /\ km_task[t].pc = "store_put"
    /\ KeyStep(t, [km_task[t] EXCEPT !.pc = "list_get"],
               StoragePut(km.storage, ApiKeyKey(km_task[t].api_key.id),
                          ToDict(km_task[t].api_key)))

\* _store_key: customer_keys = await self.storage.get(...) or [], and the
\* append when the id is not listed.
ListGet(t) ==
    /\ km_task[t].pc = "list_get"
    /\ LET key == CustomerKeysKey(km_task[t].api_key.customer_id)
           customer_keys == IF Stored(km.storage, key) THEN km.storage[key] ELSE <<>>
           listed == \E i \in 1..Len(customer_keys) :
                        customer_keys[i] = km_task[t].api_key.id
       IN
       KeyStep(t,
               IF listed THEN StoreKeyReturned(km_task[t])
               ELSE [km_task[t] EXCEPT
                        !.pc = "list_put",
                        !.customer_keys = Append(customer_keys, km_task[t].api_key.id)],
               km.storage)

\* _store_key: await self.storage.put(f"customer_keys:{...}", customer_keys)
ListPut(t) ==
    /\ km_task[t].pc = "list_put"
    /\ KeyStep(t, StoreKeyReturned(km_task[t]),
               StoragePut(km.storage,
                          CustomerKeysKey(km_task[t].api_key.customer_id),
                          km_task[t].customer_keys))

\* _store_hash_mapping: await self.storage.put(f"apikey_hash:{key_hash}", key_id);
\* create_key returns, and rotate_key goes on to revoke_key(key_id).
HashPut(t) ==
    /\ km_task[t].pc = "hash_put"
    /\ KeyStep(t,
               IF km_task[t].op = "rotate_key"
               THEN [km_task[t] EXCEPT !.pc = "key_get"]
               ELSE KeyFinish(km_task[t],
                              <<km_task[t].new_raw_key, km_task[t].new_api_key>>),
               StoragePut(km.storage,
                          HashMappingKey(km_task[t].api_key.key_hash),
                          km_task[t].api_key.id))

\* The manager after a create_key(customer_id, "key", [READ], rate_limit=rate_limit)
\* that ran alone to its return: the key, the customer's key list and the hash
\* mapping are stored.
AfterCreateKey(manager, customer_id, rate_limit) ==
    LET api_key == NewAPIKey(manager.minted + 1, manager.calls + 1, customer_id,
                             "key", <<"read">>, 0, rate_limit, FALSE, NoMetadata)
        listed == IF Stored(manager.storage, CustomerKeysKey(customer_id))
                  THEN manager.storage[CustomerKeysKey(customer_id)] ELSE <<>>
    IN
    [manager EXCEPT
        !.minted = @ + 1,
        !.calls = @ + 1,
        !.storage =
            StoragePut(
              StoragePut(
                StoragePut(@, ApiKeyKey(api_key.id), ToDict(api_key)),
                CustomerKeysKey(customer_id), Append(listed, api_key.id)),
              HashMappingKey(api_key.key_hash), api_key.id)]

\* No key call was ever made.
KeysQuiet ==
    /\ km = NewKeyManager
    /\ km_task = [t \in Tasks |-> KeyIdle]

-----------------------------------------------------------------------------
(* OnboardingManager (onboarding.py) *)

\* list(OnboardingStep), the enumeration order.
StepOrder ==
    <<"account_created", "email_verified", "business_info", "payment_connected",
      "first_product", "first_price", "test_checkout", "webhook_configured",
      "webhook_tested", "go_live_ready", "live">>

OnboardingSteps == {StepOrder[i] : i \in 1..Len(StepOrder)}

\* OnboardingManager.step_requirements
StepRequirements(step) ==
    CASE step = "account_created" -> <<>>
      [] step = "email_verified" -> <<"account_created">>
      [] step = "business_info" -> <<"email_verified">>
      [] step = "payment_connected" -> <<"business_info">>
      [] step = "first_product" -> <<"payment_connected">>
      [] step = "first_price" -> <<"first_product">>
      [] step = "test_checkout" -> <<"first_price">>
      [] step = "webhook_configured" -> <<"payment_connected">>
      [] step = "webhook_tested" -> <<"webhook_configured", "test_checkout">>
      [] step = "go_live_ready" -> <<"webhook_tested">>
      [] step = "live" -> <<"go_live_ready">>

\* x in list
In(x, list) == \E i \in 1..Len(list) : list[i] = x

OnboardingKey(customer_id) == <<"onboarding", customer_id>>

\* data=None of complete_step, and an empty step_data.
NoData == [k \in {} |-> ""]

\* dict.get(key, {}) and dict.get(key): the value, or nothing.
Lookup(dict, key) == IF key \in DOMAIN dict THEN dict[key] ELSE NoData

HasField(dict, key, field) == field \in DOMAIN Lookup(dict, key)

\* The state start_onboarding builds.
NewOnboardingState(customer_id, now) ==
    [customer_id     |-> customer_id,
     current_step    |-> "account_created",
     completed_steps |-> <<"account_created">>,
     step_data       |-> NoData,
     started_at      |-> now,
     updated_at      |-> now,
     completed_at    |-> NoTime,
     blockers        |-> <<>>]

\* The dict _save_state puts.
SavedState(state) ==
    [customer_id     |-> state.customer_id,
     current_step    |-> state.current_step,
     completed_steps |-> state.completed_steps,
     step_data       |-> state.step_data,
     started_at      |-> state.started_at,
     updated_at      |-> state.updated_at,
     completed_at    |-> state.completed_at,
     blockers        |-> state.blockers]

\* _dict_to_state
DictToState(data) ==
    [customer_id     |-> data.customer_id,
     current_step    |-> data.current_step,
     completed_steps |-> data.completed_steps,
     step_data       |-> data.step_data,
     started_at      |-> data.started_at,
     updated_at      |-> data.updated_at,
     completed_at    |-> data.completed_at,
     blockers        |-> data.blockers]

\* OnboardingState.progress_percent
ProgressPercent(state) == (Len(state.completed_steps) * 100) \div Len(StepOrder)

\* all(req in state.completed_steps for req in requirements)
RequirementsMet(state, step) ==
    \A i \in 1..Len(StepRequirements(step)) :
        In(StepRequirements(step)[i], state.completed_steps)

\* _get_next_step: the loop over step_order from position i.
RECURSIVE NextStepFrom(_, _)
NextStepFrom(state, i) ==
    IF i > Len(StepOrder) THEN state.current_step
    ELSE IF ~In(StepOrder[i], state.completed_steps) /\ RequirementsMet(state, StepOrder[i])
    THEN StepOrder[i]
    ELSE NextStepFrom(state, i + 1)

GetNextStep_KeepsCurrent(state) == state.current_step

GetNextStep(state) == NextStepFrom(state, 1)

\* The first requirement of the step that is not completed, if any.
MissingRequirements(state, step) ==
    SelectSeq(StepRequirements(step), LAMBDA req : ~In(req, state.completed_steps))

\* complete_step after get_state returned the state: the state it saves.
Completed_AlwaysAppends(state, step, data, now) ==
    LET appended == [state EXCEPT !.completed_steps = Append(@, step)]
        with_data == IF data # NoData
                     THEN [appended EXCEPT !.step_data =
                             [k \in DOMAIN @ \cup {step} |-> IF k = step THEN data ELSE @[k]]]
                     ELSE appended
        stepped == [with_data EXCEPT !.current_step = GetNextStep(with_data),
                                     !.updated_at = now]
    IN
    IF Len(stepped.completed_steps) = Len(StepOrder)
    THEN [stepped EXCEPT !.completed_at = now]
    ELSE stepped

Completed(state, step, data, now) ==
    LET appended == IF ~In(step, state.completed_steps)
                    THEN [state EXCEPT !.completed_steps = Append(@, step)]
                    ELSE state
        with_data == IF data # NoData
                     THEN [appended EXCEPT !.step_data =
                             [k \in DOMAIN @ \cup {step} |-> IF k = step THEN data ELSE @[k]]]
                     ELSE appended
        stepped == [with_data EXCEPT !.current_step = GetNextStep(with_data),
                                     !.updated_at = now]
    IN
    IF Len(stepped.completed_steps) = Len(StepOrder)
    THEN [stepped EXCEPT !.completed_at = now]
    ELSE stepped

\* What complete_step returns.
NotStarted == [success |-> FALSE, error |-> "Onboarding not started"]

RequirementNotMet(req) ==
    [success |-> FALSE, error |-> "Requirement not met: " \o req,
     missing_requirement |-> req]

StepCompleted(state, step) ==
    [success |-> TRUE, step |-> step, progress |-> ProgressPercent(state),
     next_step |-> state.current_step, is_complete |-> state.completed_at # NoTime]

\* Whether complete_step passes its requirement check on the state.
MayComplete_Unchecked(state, step) == TRUE

MayComplete(state, step) == MissingRequirements(state, step) = <<>>

\* get_go_live_checklist: ready_to_go_live
ChecklistSteps ==
    <<"email_verified", "business_info", "payment_connected", "first_product",
      "first_price", "test_checkout", "webhook_configured", "webhook_tested">>

ReadyToGoLive(state) ==
    \A i \in 1..Len(ChecklistSteps) : In(ChecklistSteps[i], state.completed_steps)

\* The operations built on complete_step, the step each completes, and what
\* each needs before it calls complete_step.
StepOperations ==
    {"verify_email", "set_business_info", "connect_payment", "create_first_product",
     "create_first_price", "create_test_checkout", "configure_webhook", "test_webhook"}

StepOf(op) ==
    CASE op = "verify_email" -> "email_verified"
      [] op = "set_business_info" -> "business_info"
      [] op = "connect_payment" -> "payment_connected"
      [] op = "create_first_product" -> "first_product"
      [] op = "create_first_price" -> "first_price"
      [] op = "create_test_checkout" -> "test_checkout"
      [] op = "configure_webhook" -> "webhook_configured"
      [] op = "test_webhook" -> "webhook_tested"
      [] op = "go_live" -> "go_live_ready"

\* The operations that begin with get_state.  (Stripe answers every call an
\* operation makes to it; the ids it returns are fixed values.)
ReadsFirst ==
    {"set_business_info", "connect_payment", "create_first_price",
     "create_test_checkout", "test_webhook", "go_live"}

\* The check an operation makes on the state get_state returned: the error it
\* returns, or "None".
Refusal(op, state) ==
    CASE op = "connect_payment"
           /\ ~HasField(state.step_data, "business_info", "stripe_customer_id")
           -> "Business info not set"
      [] op = "create_first_price"
           /\ ~HasField(state.step_data, "first_product", "product_id")
           -> "Product not created"
      [] op = "create_test_checkout"
           /\ ~HasField(state.step_data, "first_price", "price_id")
           -> "Price not created"
      [] op = "test_webhook"
           /\ ~HasField(state.step_data, "webhook_configured", "webhook_id")
           -> "Webhook not configured"
      [] op = "go_live" /\ ~ReadyToGoLive(state) -> "Not ready to go live"
      [] OTHER -> "None"

\* What the operation returns then; go_live adds the checklist (here, which of
\* its items are complete).
Refused(op, state) ==
    IF op = "go_live"
    THEN [success |-> FALSE, error |-> Refusal(op, state),
          checklist |-> [i \in 1..Len(ChecklistSteps) |->
                            In(ChecklistSteps[i], state.completed_steps)]]
    ELSE [success |-> FALSE, error |-> Refusal(op, state)]

\* The data an operation passes to complete_step for the step;
\* datetime.utcnow().isoformat() is a string the model does not look into.
StepData(op, step) ==
    CASE op = "complete_step" -> NoData
      [] op = "verify_email" -> [verified_at |-> "utcnow"]
      [] op = "set_business_info" ->
            [company_name |-> "Acme", business_type |-> "company", country |-> "US",
             stripe_customer_id |-> "cus_1"]
      [] op = "connect_payment" -> [payment_method_id |-> "pm_1"]
      [] op = "create_first_product" -> [product_id |-> "prod_1", name |-> "Product"]
      [] op = "create_first_price" ->
            [price_id |-> "price_1", amount |-> 100, currency |-> "usd"]
      [] op = "create_test_checkout" -> [session_id |-> "cs_1"]
      [] op = "configure_webhook" ->
            [webhook_id |-> "we_1", webhook_url |-> "https://example.com/hook",
             secret |-> "whsec_1"]
      [] op = "test_webhook" -> [tested_at |-> "utcnow"]
      [] op = "go_live" ->
            IF step = "go_live_ready" THEN [ready_at |-> "utcnow"]
            ELSE [live_at |-> "utcnow"]

\* The manager over an empty storage.  `calls` counts the calls started (the
\* clock of time.time()), `budget` the calls that may still start.
NewOnboardingManager ==
    [storage |-> EmptyStorage, calls |-> 0, budget |-> MaxOnboardingCalls]

\* A task that runs no call.  pc: idle | pre_get | get | save | done.
\* `entry` is the storage as it was when the running complete_step was called,
\* `returned` the complete_step calls of this call that returned: the step, the
\* value returned, the storage at the call and at the return.
ObIdle ==
    [pc          |-> "idle",
     op          |-> "None",
     solo        |-> TRUE,
     customer_id |-> "None",
     step        |-> "None",
     data        |-> NoData,
     state       |-> None,
     entry       |-> EmptyStorage,
     returned    |-> <<>>,
     result      |-> NoResult]

ObInFlight(task) == task.pc \notin {"idle", "done"}

ObFinish(task, value) == [task EXCEPT !.pc = "done", !.result = Returns(value)]

\* complete_step(customer_id, step, data) is called.
CompleteStepCall(task, storage, step, data) ==
    [task EXCEPT !.pc = "get", !.step = step, !.data = data, !.entry = storage]

\* complete_step returned `value` to the operation, which returns it; go_live
\* drops the result of GO_LIVE_READY and calls complete_step for LIVE, and
\* create_test_checkout adds the checkout url.
CompleteStepReturned(task, storage, value) ==
    LET after == [task EXCEPT !.returned =
                     Append(@, [step |-> task.step, value |-> value,
                                entry |-> task.entry, exit |-> storage])]
    IN
    IF task.op = "go_live" /\ task.step = "go_live_ready"
    THEN CompleteStepCall(after, storage, "live", StepData("go_live", "live"))
    ELSE IF task.op = "create_test_checkout"
    THEN ObFinish(after, [k \in DOMAIN value \cup {"checkout_url"} |->
                            IF k = "checkout_url" THEN "https://checkout/cs_1"
                            ELSE value[k]])
    ELSE ObFinish(after, value)

OnboardingQuiet ==
    /\ ob = NewOnboardingManager
    /\ ob_task = [t \in Tasks |-> ObIdle]

ObWebhooksUnchanged ==
    UNCHANGED <<calls, wp, heap, wp_task, er, er_task, er_handled, route_result,
                notifications, outbox, dh, km, km_task>>

\* A call begins on task t, the first task that runs no call.
ObCallBegins(t, frame) ==
    /\ ~ObInFlight(ob_task[t])
    /\ \A u \in Tasks : u < t => ObInFlight(ob_task[u])
    /\ ob.budget > 0
    /\ ob_task' = [u \in Tasks |->
                     IF u = t
                     THEN [frame EXCEPT !.solo = \A v \in Tasks \ {t} : ~ObInFlight(ob_task[v])]
                     ELSE IF ObInFlight(ob_task[u])
                     THEN [ob_task[u] EXCEPT !.solo = FALSE]
                     ELSE ob_task[u]]
    /\ ob' = [ob EXCEPT !.calls = @ + 1, !.budget = @ - 1]
    /\ ObWebhooksUnchanged

\* start_onboarding(customer_id), up to _save_state
StartOnboarding(t, customer_id) ==
    ObCallBegins(t, [ObIdle EXCEPT !.op = "start_onboarding",
                                   !.customer_id = customer_id,
                                   !.state = NewOnboardingState(customer_id, ob.calls + 1),
                                   !.pc = "save"])

\* complete_step(customer_id, step)
CompleteStep(t, customer_id, step) ==
    ObCallBegins(t, CompleteStepCall([ObIdle EXCEPT !.op = "complete_step",
                                                    !.customer_id = customer_id],
                                     ob.storage, step, NoData))

\* verify_email ... test_webhook and go_live
StepOperation(t, op, customer_id) ==
    LET task == [ObIdle EXCEPT !.op = op, !.customer_id = customer_id] IN
    ObCallBegins(t,
        IF op \in ReadsFirst THEN [task EXCEPT !.pc = "pre_get"]
        ELSE CompleteStepCall(task, ob.storage, StepOf(op),
                              StepData(op, StepOf(op))))

\* The manager after `op` ran alone to its return.
RanAlone(manager, op, customer_id) ==
    LET now == manager.calls + 1
        key == OnboardingKey(customer_id)
        state == DictToState(manager.storage[key])
    IN
    [manager EXCEPT
        !.calls = now,
        !.storage =
            IF op = "start_onboarding"
            THEN StoragePut(@, key, SavedState(NewOnboardingState(customer_id, now)))
            ELSE IF Stored(@, key) /\ Refusal(op, state) = "None"
                                  /\ MayComplete(state, StepOf(op))
            THEN StoragePut(@, key,
                            SavedState(Completed(state, StepOf(op),
                                                 StepData(op, StepOf(op)), now)))
            ELSE @]

\* The calls that take a customer from signup to the eve of go_live, and the
\* manager after the first n of them ran one after the other.
SignupScript ==
    <<"start_onboarding", "verify_email", "set_business_info", "connect_payment",
      "create_first_product", "create_first_price", "create_test_checkout",
      "configure_webhook", "test_webhook">>

\* Where the onboarding is taken up: not started, payment connected, webhook
\* tested.
TakenUpAfter ==
    {n \in 0..Len(SignupScript) :
        n = 0 \/ SignupScript[n] \in {"connect_payment", "test_webhook"}}

RECURSIVE AfterSignupCalls(_, _)
AfterSignupCalls(customer_id, n) ==
    IF n = 0 THEN NewOnboardingManager
    ELSE RanAlone(AfterSignupCalls(customer_id, n - 1), SignupScript[n], customer_id)

\* A step of task t.
ObStep(t, after, storage) ==
    /\ ob_task' = [ob_task EXCEPT ![t] = after]
    /\ ob' = [ob EXCEPT !.storage = storage]
    /\ ObWebhooksUnchanged

\* The get_state an operation makes before complete_step, and its check.
\* go_live reads checklist["checklist"] of what get_go_live_checklist returned,
\* which has no such key when the onboarding is not started.
ObPreGet(t) ==
    /\ ob_task[t].pc = "pre_get"
    /\ LET task == ob_task[t]
           key == OnboardingKey(task.customer_id)
       IN
       ObStep(t,
              IF ~Stored(ob.storage, key)
              THEN IF task.op = "go_live"
                   THEN [task EXCEPT !.pc = "done", !.result = Raises("KeyError")]
                   ELSE ObFinish(task, NotStarted)
              ELSE IF Refusal(task.op, DictToState(ob.storage[key])) # "None"
              THEN ObFinish(task, Refused(task.op, DictToState(ob.storage[key])))
              ELSE CompleteStepCall(task, ob.storage, StepOf(task.op),
                                    StepData(task.op, StepOf(task.op))),
              ob.storage)

\* complete_step: state = await self.get_state(customer_id), the requirement
\* check and the update of the state, up to _save_state.
ObGet(t) ==
    /\ ob_task[t].pc = "get"
    /\ LET task == ob_task[t]
           key == OnboardingKey(task.customer_id)
       IN
       ObStep(t,
              IF ~Stored(ob.storage, key)
              THEN CompleteStepReturned(task, ob.storage, NotStarted)
              ELSE IF ~MayComplete(DictToState(ob.storage[key]), task.step)
              THEN CompleteStepReturned(
                     task, ob.storage,
                     RequirementNotMet(
                       MissingRequirements(DictToState(ob.storage[key]), task.step)[1]))
              ELSE [task EXCEPT
                      !.pc = "save",
                      !.state = Completed(DictToState(ob.storage[key]), task.step,
                                          task.data, ob.calls)],
              ob.storage)

\* _save_state: await self.storage.put(f"onboarding:{customer_id}", data), and
\* the return of start_onboarding or of complete_step.
ObSave(t) ==
    /\ ob_task[t].pc = "save"
    /\ LET task == ob_task[t]
           storage == StoragePut(ob.storage, OnboardingKey(task.state.customer_id),
                                 SavedState(task.state))
       IN
       ObStep(t,
              IF task.op = "start_onboarding" THEN ObFinish(task, task.state)
              ELSE CompleteStepReturned(task, storage,
                                        StepCompleted(task.state, task.step)),
              storage)

-----------------------------------------------------------------------------
(* Specification *)

Init ==
    /\ calls = 0
    /\ \E m \in RetryLimits : wp = NewProcessor(m, DefaultRetryDelay)
    /\ heap = <<>>
    /\ wp_task = [t \in Tasks |-> IdleTask]
    /\ er = NewRouter
    /\ er_task = [t \in Tasks |-> RouterIdle]
    /\ er_handled = [id \in AllEventIds |-> 0]
    /\ route_result = [req |-> NoRequest, result |-> NoResult]
    /\ notifications = FALSE
    /\ outbox = <<>>
    /\ dh = [t \in Tasks |-> NoFrame]
    /\ KeysQuiet
    /\ OnboardingQuiet

Next ==
    \/ \E t \in Tasks, req \in Requests : Process(t, req)
    \/ \E t \in Tasks, id \in EventIds : RetryFailed(t, id)
    \/ \E t \in Tasks : HandlerReturns(t)
    \/ \E t \in Tasks : HandlerRaises(t)
    \/ \E t \in Tasks : Wake(t)
    \/ \E t \in Tasks : ProcessorAnswers(t)
    \/ \E t \in Tasks, req \in Requests : ProcessWebhook(t, req)
    \/ \E t \in Tasks : RouterGetThenHandle(t)
    \/ \E t \in Tasks : AwaitReturns(t)
    \/ \E t \in Tasks : AwaitRaises(t)
    \/ \E t \in Tasks : RouterPut(t)
    \/ \E t \in Tasks : RouterPutRaises(t)
    \/ \E t \in Tasks : RouterPutFailed(t)
    \/ \E t \in Tasks : RouterPutFailedRaises(t)
    \/ \E t \in Tasks : RouterAnswers(t)
    \/ \E req \in Requests : HandleWebhook(req)

Spec == Init /\ [][Next]_vars

\* The router as create_event_router builds it, with or without an
\* email_sender, receiving verified deliveries one at a time; the routed handler
\* is the registered domain handler, run await by await.
HandlerRequests == [well_formed : {TRUE}, sig_ok : {TRUE}, id : HandlerEventIds]

HandlerInit ==
    /\ calls = 0
    /\ wp = NewProcessor(MaxRetries, DefaultRetryDelay)
    /\ heap = <<>>
    /\ wp_task = [t \in Tasks |-> IdleTask]
    /\ er = NewRouter
    /\ er_task = [t \in Tasks |-> RouterIdle]
    /\ er_handled = [id \in AllEventIds |-> 0]
    /\ route_result = [req |-> NoRequest, result |-> NoResult]
    /\ notifications \in BOOLEAN
    /\ outbox = <<>>
    /\ dh = [t \in Tasks |-> NoFrame]
    /\ KeysQuiet
    /\ OnboardingQuiet

HandlerNext ==
    \/ \E req \in HandlerRequests : ProcessWebhook(1, req)
    \/ RouterGetThenHandle(1)
    \/ AwaitReturns(1)
    \/ AwaitRaises(1)
    \/ RouterPut(1)
    \/ RouterPutRaises(1)
    \/ RouterPutFailed(1)
    \/ RouterPutFailedRaises(1)
    \/ RouterAnswers(1)

HandlerSpec == HandlerInit /\ [][HandlerNext]_vars

\* The processor alone, configured with any max_retries up to MaxAttempts and a
\* retry_delay of RetryDelays, serving one call at a time.
BackoffInit ==
    /\ calls = 0
    /\ \E m \in 0..MaxAttempts, d \in RetryDelays : wp = NewProcessor(m, d)
    /\ heap = <<>>
    /\ wp_task = [t \in Tasks |-> IdleTask]
    /\ er = NewRouter
    /\ er_task = [t \in Tasks |-> RouterIdle]
    /\ er_handled = [id \in AllEventIds |-> 0]
    /\ route_result = [req |-> NoRequest, result |-> NoResult]
    /\ notifications = FALSE
    /\ outbox = <<>>
    /\ dh = [t \in Tasks |-> NoFrame]
    /\ KeysQuiet
    /\ OnboardingQuiet

BackoffNext ==
    \/ \E req \in Requests : Process(1, req)
    \/ \E id \in EventIds : RetryFailed(1, id)
    \/ HandlerReturns(1)
    \/ HandlerRaises(1)
    \/ Wake(1)
    \/ ProcessorAnswers(1)

BackoffSpec == BackoffInit /\ [][BackoffNext]_vars

\* A router built by EventRouter(webhook_secret, storage) on which an
\* application has registered up to two handlers of its choice, in the order of
\* its choice, before traffic; the handlers are built on a storage of their own,
\* so that a handle() call returns or raises without writing to the router's
\* storage (RouterHandlerReturns, RouterHandlerRaises).
HandlerPool == {InvoiceEventHandler, SecondInvoiceEventHandler, DisputeEventHandler}

RegistrationLists ==
    {<<>>} \cup {<<a>> : a \in HandlerPool}
           \cup {list \in HandlerPool \X HandlerPool : list[1] # list[2]}

RegistryInit ==
    /\ calls = 0
    /\ wp = NewProcessor(MaxRetries, DefaultRetryDelay)
    /\ heap = <<>>
    /\ wp_task = [t \in Tasks |-> IdleTask]
    /\ \E list \in RegistrationLists : er = RouterWith(list)
    /\ er_task = [t \in Tasks |-> RouterIdle]
    /\ er_handled = [id \in AllEventIds |-> 0]
    /\ route_result = [req |-> NoRequest, result |-> NoResult]
    /\ notifications = FALSE
    /\ outbox = <<>>
    /\ dh = [t \in Tasks |-> NoFrame]
    /\ KeysQuiet
    /\ OnboardingQuiet

RegistryNext ==
    \/ \E t \in Tasks, req \in Requests : ProcessWebhook(t, req)
    \/ \E t \in Tasks : RouterGet(t)
    \/ \E t \in Tasks : RouterHandlerReturns(t)
    \/ \E t \in Tasks : RouterHandlerRaises(t)
    \/ \E t \in Tasks : RouterPut(t)
    \/ \E t \in Tasks : RouterPutRaises(t)
    \/ \E t \in Tasks : RouterPutFailed(t)
    \/ \E t \in Tasks : RouterPutFailedRaises(t)
    \/ \E t \in Tasks : RouterAnswers(t)

RegistrySpec == RegistryInit /\ [][RegistryNext]_vars

\* No webhook was ever received.
WebhooksQuiet ==
    /\ calls = 0
    /\ wp = NewProcessor(MaxRetries, DefaultRetryDelay)
    /\ heap = <<>>
    /\ wp_task = [t \in Tasks |-> IdleTask]
    /\ er = NewRouter
    /\ er_task = [t \in Tasks |-> RouterIdle]
    /\ er_handled = [id \in AllEventIds |-> 0]
    /\ route_result = [req |-> NoRequest, result |-> NoResult]
    /\ notifications = FALSE
    /\ outbox = <<>>
    /\ dh = [t \in Tasks |-> NoFrame]

\* The key manager after it issued a first key, serving the calls that follow,
\* two at a time at most, interleaved at the storage awaits.
IssuedRawKeys == {RawKey(LivePrefix, n) : n \in 1..km.minted}

IssuedKeyIds == {KeyId(n) : n \in 1..km.minted}

RequiredScopes == {<<>>, <<"write">>}

Changes ==
    {[name |-> "renamed", scopes |-> <<"read", "write">>, rate_limit |-> SmallRateLimit + 1]}

KeyInit ==
    /\ WebhooksQuiet
    /\ \E customer_id \in Customers :
          km = AfterCreateKey(NewKeyManager, customer_id, SmallRateLimit)
    /\ km_task = [t \in Tasks |-> KeyIdle]
    /\ OnboardingQuiet

KeyNext ==
    \/ \E t \in Tasks, customer_id \in Customers : CreateKey(t, customer_id, SmallRateLimit)
    \/ \E t \in Tasks, raw_key \in IssuedRawKeys \cup {ForeignRawKey, UnissuedRawKey},
          required_scopes \in RequiredScopes : ValidateKey(t, raw_key, required_scopes)
    \/ \E t \in Tasks, key_id \in IssuedKeyIds \cup {UnknownKeyId} : RevokeKey(t, key_id)
    \/ \E t \in Tasks, key_id \in IssuedKeyIds \cup {UnknownKeyId} : ResetRateLimit(t, key_id)
    \/ \E t \in Tasks, key_id \in IssuedKeyIds \cup {UnknownKeyId} : RotateKey(t, key_id)
    \/ \E t \in Tasks, key_id \in IssuedKeyIds \cup {UnknownKeyId}, changes \in Changes :
          UpdateKey(t, key_id, changes)
    \/ \E t \in Tasks : HashGet(t)
    \/ \E t \in Tasks : KeyGet(t)
    \/ \E t \in Tasks : StorePut(t)
    \/ \E t \in Tasks : ListGet(t)
    \/ \E t \in Tasks : ListPut(t)
    \/ \E t \in Tasks : HashPut(t)

KeySpec == KeyInit /\ [][KeyNext]_vars

\* The key manager after it issued a first key: the key is revoked, and then
\* come the calls on the revoked key that the manager offers (update_key,
\* reset_rate_limit, rotate_key, validate_key of its raw key), two at a time at
\* most, interleaved at the storage awaits.  A call is served by the lowest
\* free task.
KeyLowestFree(t) ==
    /\ ~KeyInFlight(km_task[t])
    /\ \A u \in Tasks : u < t => KeyInFlight(km_task[u])

RevokedRawKeys == {raw_key \in IssuedRawKeys :
                      \E n \in 1..km.minted :
                          raw_key = RawKey(LivePrefix, n) /\ KeyId(n) \in km.revoked}

RevokeInit ==
    /\ WebhooksQuiet
    /\ \E customer_id \in Customers :
          km = [AfterCreateKey(NewKeyManager, customer_id, SmallRateLimit)
                   EXCEPT !.limit = MaxRevokeCalls]
    /\ km_task = [t \in Tasks |-> KeyIdle]
    /\ OnboardingQuiet

RevokeNext ==
    \/ \E t \in Tasks, key_id \in IssuedKeyIds :
          km.revoked = {} /\ KeyLowestFree(t) /\ RevokeKey(t, key_id)
    \/ \E t \in Tasks, raw_key \in RevokedRawKeys :
          KeyLowestFree(t) /\ ValidateKey(t, raw_key, <<>>)
    \/ \E t \in Tasks, key_id \in km.revoked :
          KeyLowestFree(t) /\ ResetRateLimit(t, key_id)
    \/ \E t \in Tasks, key_id \in km.revoked :
          KeyLowestFree(t) /\ RotateKey(t, key_id)
    \/ \E t \in Tasks, key_id \in km.revoked, changes \in Changes :
          KeyLowestFree(t) /\ UpdateKey(t, key_id, changes)
    \/ \E t \in Tasks : HashGet(t)
    \/ \E t \in Tasks : KeyGet(t)
    \/ \E t \in Tasks : StorePut(t)
    \/ \E t \in Tasks : ListGet(t)
    \/ \E t \in Tasks : ListPut(t)
    \/ \E t \in Tasks : HashPut(t)

RevokeSpec == RevokeInit /\ [][RevokeNext]_vars

\* The onboarding of one customer, taken up after some of the signup calls,
\* serving the calls that follow, two at a time at most, interleaved at
\* the storage awaits.
OnboardingInit ==
    /\ WebhooksQuiet
    /\ KeysQuiet
    /\ \E customer_id \in Customers, n \in TakenUpAfter :
          ob = AfterSignupCalls(customer_id, n)
    /\ ob_task = [t \in Tasks |-> ObIdle]

OnboardingNext ==
    \/ \E t \in Tasks, customer_id \in Customers : StartOnboarding(t, customer_id)
    \/ \E t \in Tasks, customer_id \in Customers, step \in OnboardingSteps :
          CompleteStep(t, customer_id, step)
    \/ \E t \in Tasks, op \in StepOperations \cup {"go_live"}, customer_id \in Customers :
          StepOperation(t, op, customer_id)
    \/ \E t \in Tasks : ObPreGet(t)
    \/ \E t \in Tasks : ObGet(t)
    \/ \E t \in Tasks : ObSave(t)

OnboardingSpec == OnboardingInit /\ [][OnboardingNext]_vars

-----------------------------------------------------------------------------
(* Vocabulary of the properties *)

\* The request passes verification: its payload parses and its signature matches.
Verified(req) == req.well_formed /\ req.sig_ok

\* Only the payload is wrong / only the signature is wrong.
Malformed(req) == ~req.well_formed /\ req.sig_ok

SignatureMismatch(req) == req.well_formed /\ ~req.sig_ok

\* Some entry of event_log carries the id: an earlier call for it has completed.
IdLogged(id) == \E i \in 1..Len(wp.event_log) : heap[wp.event_log[i]].id = id

\* How many times failed_events holds the event object.
DeadLetters(ev) ==
    Cardinality({i \in 1..Len(wp.failed_events) : wp.failed_events[i] = ev})

\* Task t enters process / retry_failed in this step.
ProcessorCallStarts(t) == wp_task[t].pc = "idle" /\ wp_task'[t].pc # "idle"

\* Task t enters process_webhook in this step.
RouterCallStarts(t) == er_task[t].pc = "idle" /\ er_task'[t].pc # "idle"

\* The task has completed a run of _process_event.
RunDone(tk) == tk.pc = "done" /\ tk.ev # 0

\* The handlers _process_event iterates over in the run of tk.
RunHandlers(tk) == HandlersGet(wp.handlers, heap[tk.ev].type)

\* Handler number h returned from some attempt of the run.
Succeeded(tk, h) == \E i \in 1..Len(tk.trace) : tk.trace[i] = <<h, "returned">>

\* Attempts of handler number h that raised in the run.
Failures(tk, h) ==
    Cardinality({i \in 1..Len(tk.trace) : tk.trace[i] = <<h, "raised">>})

\* Invocations of handler number h in the run, the one in flight included.
Invocations(tk, h) ==
    Cardinality({i \in 1..Len(tk.trace) : tk.trace[i][1] = h})
        + (IF tk.pc = "handler" /\ tk.h = h THEN 1 ELSE 0)

\* The HTTP status a result carries for the provider.
StatusOf(result) ==
    IF result.kind = "HTTPException" THEN result.status_code
    ELSE IF result.kind = "return" /\ "error" \in DOMAIN result.body
    THEN result.body.status
    ELSE 200

-----------------------------------------------------------------------------
(* Properties *)

\* C1: in EventRouter.process_webhook a redelivery (the handler already ran for
\* the event id, and returned or raised, before the request arrived; no other
\* delivery in flight) invokes no handler.
C1_HandlerAtMostOncePerEventId ==
    \A t \in Tasks : er_task[t].redelivery => er_task[t].invoked = 0

\* C2: in WebhookProcessor.process a verified delivery whose event id is already
\* in event_log (an earlier call for it completed) ends at once, invokes no
\* handler and leaves the processor (event_log, failed_events) and the events
\* unchanged.
C2_RedeliveryHasNoEffect ==
    [][\A t \in Tasks :
          (/\ ProcessorCallStarts(t)
           /\ wp_task'[t].op = "process"
           /\ Verified(wp_task'[t].req)
           /\ IdLogged(wp_task'[t].req.id))
          => /\ wp' = wp
             /\ heap' = heap
             /\ wp_task'[t].pc = "done"
             /\ wp_task'[t].trace = <<>>]_vars

\* C2 witness: a verified redelivery of a logged event with handlers has been
\* answered without a handler invocation.
C2_RedeliveryAnswered ==
    \E t \in Tasks :
        /\ wp_task[t].pc = "done"
        /\ wp_task[t].op = "process"
        /\ Verified(wp_task[t].req)
        /\ IdLogged(wp_task[t].req.id)
        /\ wp_task[t].ev = 0
        /\ wp_task[t].trace = <<>>
        /\ HandlersGet(wp.handlers, TypeOf(wp_task[t].req.id)) # <<>>
        /\ wp.max_retries >= 1

\* C3: with max_retries >= 1, a handler that has not returned from any attempt
\* of a run of _process_event is never invoked more than max_retries times, and
\* when the run is over it has been invoked exactly max_retries times.
C3_AlwaysFailingInvokedMaxRetriesTimes ==
    \A t \in Tasks :
        LET tk == wp_task[t] IN
        (tk.ev # 0 /\ wp.max_retries >= 1) =>
            \A h \in 1..Len(RunHandlers(tk)) :
                ~Succeeded(tk, h) =>
                    /\ Invocations(tk, h) <= wp.max_retries
                    /\ RunDone(tk) => Invocations(tk, h) = wp.max_retries

\* C3 witness: a run is over in which a handler failed on each of two or more attempts.
C3_HandlerFailedEveryAttempt ==
    \E t \in Tasks :
        /\ RunDone(wp_task[t])
        /\ wp.max_retries >= 2
        /\ \E h \in 1..Len(RunHandlers(wp_task[t])) :
              /\ ~Succeeded(wp_task[t], h)
              /\ Failures(wp_task[t], h) = wp.max_retries

\* C4: when a run of _process_event is over in which at least one handler
\* failed on all its max_retries >= 1 attempts, failed_events holds the event
\* exactly once.
C4_DeadLetteredExactlyOnce ==
    \A t \in Tasks :
        LET tk == wp_task[t] IN
        (/\ RunDone(tk)
         /\ wp.max_retries >= 1
         /\ \E h \in 1..Len(RunHandlers(tk)) :
               ~Succeeded(tk, h) /\ Failures(tk, h) = wp.max_retries)
        => DeadLetters(tk.ev) = 1

\* C5: when a run of _process_event is over in which every registered handler
\* returned from one of its attempts, the status is `processed` and the event is
\* not in failed_events.
C5_EventualSuccessIsProcessed ==
    \A t \in Tasks :
        LET tk == wp_task[t] IN
        (/\ RunDone(tk)
         /\ RunHandlers(tk) # <<>>
         /\ \A h \in 1..Len(RunHandlers(tk)) : Succeeded(tk, h))
        => /\ tk.result.kind = "return"
           /\ tk.result.body.status = "processed"
           /\ DeadLetters(tk.ev) = 0

\* C6: a request that fails verification ends its call in the step it arrives
\* in: no handler is invoked; process_webhook does no storage get or put and
\* leaves the storage as it is; process leaves the processor (event_log,
\* failed_events) and the events as they are.
C6_VerificationFailureChangesNothing ==
    [][\A t \in Tasks :
          /\ (ProcessorCallStarts(t) /\ wp_task'[t].op = "process"
                /\ ~Verified(wp_task'[t].req))
             => /\ wp' = wp
                /\ heap' = heap
                /\ wp_task'[t].pc = "done"
                /\ wp_task'[t].trace = <<>>
                /\ wp_task'[t].result.kind # "return"
          /\ (RouterCallStarts(t) /\ ~Verified(er_task'[t].req))
             => /\ er' = er
                /\ er_handled' = er_handled
                /\ er_task'[t].pc = "done"
                /\ er_task'[t].gets = 0
                /\ er_task'[t].puts = 0
                /\ er_task'[t].invoked = 0
                /\ "error" \in DOMAIN er_task'[t].result.body]_vars

\* C6 witness: the processor and the router have each turned down a request
\* that failed verification.
C6_UnverifiedRequestsRejected ==
    /\ \E t \in Tasks :
          /\ wp_task[t].pc = "done" /\ wp_task[t].op = "process"
          /\ ~Verified(wp_task[t].req)
    /\ \E t \in Tasks :
          /\ er_task[t].pc = "done"
          /\ ~Verified(er_task[t].req)

\* C7: in each of the three entry points a payload that does not parse is
\* answered 400 and a signature that does not match is answered 401.
C7_DistinctVerificationStatuses ==
    /\ \A t \in Tasks :
          (er_task[t].pc = "done") =>
              /\ Malformed(er_task[t].req) => StatusOf(er_task[t].result) = 400
              /\ SignatureMismatch(er_task[t].req) => StatusOf(er_task[t].result) = 401
    /\ \A t \in Tasks :
          (wp_task[t].pc = "done" /\ wp_task[t].op = "process") =>
              /\ Malformed(wp_task[t].req) => StatusOf(wp_task[t].result) = 400
              /\ SignatureMismatch(wp_task[t].req) => StatusOf(wp_task[t].result) = 401
    /\ (route_result.result.kind # "none") =>
              /\ Malformed(route_result.req) => StatusOf(route_result.result) = 400
              /\ SignatureMismatch(route_result.req) => StatusOf(route_result.result) = 401

\* The statuses the interface names.
InterfaceStatuses == {"processed", "already_processed", "unhandled", "partial_failure"}

\* C8: every result process and process_webhook return for a verified request
\* carries one of the four interface statuses; a duplicate id is answered
\* already_processed and a type without handlers is answered unhandled.
C8_StatusFromTheInterfaceSet ==
    /\ \A t \in Tasks :
          LET tk == er_task[t] IN
          (tk.pc = "done" /\ Verified(tk.req) /\ tk.result.kind = "return") =>
              /\ tk.result.body.status \in InterfaceStatuses
              /\ (tk.invoked = 0 /\ TypeOf(tk.req.id) \in DOMAIN er.handlers)
                    => tk.result.body.status = "already_processed"
              /\ TypeOf(tk.req.id) \notin DOMAIN er.handlers
                    => tk.result.body.status = "unhandled"
    /\ \A t \in Tasks :
          LET tk == wp_task[t] IN
          (tk.pc = "done" /\ tk.op = "process" /\ Verified(tk.req)
             /\ tk.result.kind = "return") =>
              /\ tk.result.body.status \in InterfaceStatuses
              /\ tk.ev = 0 => tk.result.body.status = "already_processed"
              /\ (tk.ev # 0 /\ RunHandlers(tk) = <<>>)
                    => tk.result.body.status = "unhandled"

\* C9: an event whose type has no registered handler is acknowledged without
\* error and without a handler invocation, and is not dead-lettered:
\* _process_event leaves failed_events as it is, process_webhook answers
\* `unhandled` and writes nothing (no failed:{id} record).
C9_UnhandledIsAcknowledgedNotDeadLettered ==
    [][\A t \in Tasks :
          /\ (ProcessorCallStarts(t) /\ wp_task'[t].op = "process"
                /\ Verified(wp_task'[t].req) /\ ~IdLogged(wp_task'[t].req.id)
                /\ HandlersGet(wp.handlers, TypeOf(wp_task'[t].req.id)) = <<>>)
             => /\ wp'.failed_events = wp.failed_events
                /\ wp_task'[t].pc = "done"
                /\ wp_task'[t].trace = <<>>
                /\ wp_task'[t].result.kind = "return"
          /\ (er_task[t].pc = "get" /\ er_task'[t].pc # "get"
                /\ TypeOf(er_task[t].req.id) \notin DOMAIN er.handlers)
             => /\ er_task'[t].pc = "done"
                /\ er_task'[t].result.kind = "return"
                /\ er_task'[t].result.body.status = "unhandled"
                /\ er_task'[t].invoked = 0
                /\ er_task'[t].puts = 0
                /\ er_handled' = er_handled
                /\ er' = er
                /\ FailedKey(er_task[t].req.id) \notin DOMAIN er'.storage]_vars

\* C9 witness: the processor and the router have each answered an event whose
\* type has no handler.
C9_UnhandledEventsAnswered ==
    /\ \E t \in Tasks :
          /\ RunDone(wp_task[t])
          /\ RunHandlers(wp_task[t]) = <<>>
          /\ wp_task[t].result.kind = "return"
    /\ \E t \in Tasks :
          /\ er_task[t].pc = "done"
          /\ Verified(er_task[t].req)
          /\ TypeOf(er_task[t].req.id) \notin DOMAIN er.handlers
          /\ er_task[t].result.kind = "return"

\* C10: when a run of _process_event is over in which a handler ran out of
\* attempts (the for-else of the attempt loop: it never returned), the call
\* has returned, not raised, with status `partial_failure` and the event id,
\* and the event is in failed_events.
C10_ExhaustionIsPartialFailure ==
    \A t \in Tasks :
        LET tk == wp_task[t] IN
        (/\ RunDone(tk)
         /\ \E h \in 1..Len(RunHandlers(tk)) : ~Succeeded(tk, h))
        => /\ tk.result.kind = "return"
           /\ tk.result.body.status = "partial_failure"
           /\ tk.result.body.event_id = heap[tk.ev].id
           /\ DeadLetters(tk.ev) >= 1

\* C11: when the routed handler raised in process_webhook, the call returns a
\* result to the caller; an exception leaves process_webhook only when the
\* ledger write storage.put(event:{id}) failed.
C11_HandlerFailureIsReturned ==
    \A t \in Tasks :
        LET tk == er_task[t] IN
        (tk.pc = "done" /\ tk.invoked >= 1) =>
            /\ tk.error = "handler" => tk.result.kind = "return"
            /\ tk.result.kind = "raise" => tk.error = "storage"

\* C12: in a run of _process_event the handlers registered for the event's type
\* are invoked in registration order, and each of them is invoked at least
\* once, whatever happened to the handlers before it: once the run has moved
\* past a handler (or is over) that handler has been invoked.
C12_EveryHandlerInvokedInOrder ==
    \A t \in Tasks :
        LET tk == wp_task[t] IN
        (tk.ev # 0) =>
            /\ \A i, j \in 1..Len(tk.trace) :
                  i < j => tk.trace[i][1] <= tk.trace[j][1]
            /\ \A h \in 1..Len(RunHandlers(tk)) :
                  (RunDone(tk) \/ tk.h > h) => Invocations(tk, h) >= 1

\* C13: a retry_failed call on an event in failed_events, with no other call
\* in flight, takes the event out of failed_events before the re-run starts
\* (at the first handler invocation of the re-run the event is not in
\* failed_events), and when the call is over the event is in failed_events
\* exactly if some handler ran out of attempts in the re-run.
C13_RetriedEventLeavesFailedEvents ==
    \A t \in Tasks :
        LET tk == wp_task[t] IN
        (tk.op = "retry_failed" /\ tk.ev # 0 /\ tk.solo) =>
            /\ (tk.pc = "handler" /\ tk.trace = <<>>) => DeadLetters(tk.ev) = 0
            /\ RunDone(tk) =>
                  (DeadLetters(tk.ev) >= 1
                     <=> \E h \in 1..Len(RunHandlers(tk)) : ~Succeeded(tk, h))

\* C14: a process_webhook call that arrives when the storage already holds
\* event:{id} for its event id invokes no handler and writes nothing to the
\* storage (the ledger entry stays as first written), and is answered
\* already_processed.
C14_LedgerEntryNeverRewritten ==
    \A t \in Tasks :
        LET tk == er_task[t] IN
        tk.ledgered =>
            /\ tk.invoked = 0
            /\ tk.puts = 0
            /\ tk.pc \in {"get", "done"}
            /\ tk.pc = "done" =>
                  /\ tk.result.kind = "return"
                  /\ tk.result.body.status = "already_processed"

\* C14 witness: a delivery that arrived after the ledger entry of its event id
\* was written has been answered.
C14_LaterDeliveryAnswered ==
    \E t \in Tasks :
        /\ er_task[t].ledgered
        /\ er_task[t].pc = "done"
        /\ er_task[t].gets = 1

\* C15: of two process_webhook calls for the same event id that are in the
\* router together and in neither of which anything raised, at most one
\* invokes the handler and at most one writes event:{id}.
C15_ConcurrentDeliveriesSetOnce ==
    \A t, u \in Tasks :
        (/\ t # u
         /\ er_task[t].pc # "idle" /\ er_task[u].pc # "idle"
         /\ Verified(er_task[t].req) /\ Verified(er_task[u].req)
         /\ er_task[t].req.id = er_task[u].req.id
         /\ er_task[t].error = "None" /\ er_task[u].error = "None")
        => /\ er_task[t].invoked + er_task[u].invoked <= 1
           /\ er_task[t].puts + er_task[u].puts <= 1

\* A run of _process_event is under way in task t.
Running(t) == wp_task[t].pc \in {"handler", "sleep"}

\* Task t takes a step of its run (not merely another call arriving beside it).
RunSteps(t) ==
    [wp_task'[t] EXCEPT !.solo = FALSE] # [wp_task[t] EXCEPT !.solo = FALSE]

\* What a run still has before it: two for every handler invocation that the
\* attempt loops can still make, the one in flight included, less one while
\* the task sleeps between two attempts; nothing once the run is over.
StepsLeft(tk) ==
    IF tk.pc \notin {"handler", "sleep"} THEN 0
    ELSE 2 * ((Len(RunHandlers(tk)) - tk.h) * wp.max_retries
                 + (wp.max_retries - tk.attempt))
         - (IF tk.pc = "sleep" THEN 1 ELSE 0)

\* C16: a run of _process_event invokes each handler at most max_retries
\* times, hence the handlers at most len(handlers) * max_retries times in all;
\* it terminates: while it is under way its next step is always possible (the
\* awaited handler returns or raises, the sleep ends) and every step it takes
\* brings the end of the run nearer; and a run of an event that already exists
\* (a dead-lettered one) starts only in a retry_failed call.
C16_RunsAreBoundedAndEnd ==
    /\ [](\A t \in Tasks :
            LET tk == wp_task[t] IN
            (tk.ev # 0) =>
                /\ \A h \in 1..Len(RunHandlers(tk)) :
                      Invocations(tk, h) <= wp.max_retries
                /\ Len(tk.trace) + (IF tk.pc = "handler" THEN 1 ELSE 0)
                      <= Len(RunHandlers(tk)) * wp.max_retries
                /\ tk.pc = "handler" =>
                      ENABLED (HandlerReturns(t) \/ HandlerRaises(t))
                /\ tk.pc = "sleep" => ENABLED Wake(t))
    /\ [][\A t \in Tasks :
            /\ (Running(t) /\ RunSteps(t))
                  => /\ wp_task'[t].pc \in {"handler", "sleep", "done"}
                     /\ StepsLeft(wp_task'[t]) < StepsLeft(wp_task[t])
            /\ (wp_task'[t].ev # wp_task[t].ev /\ wp_task'[t].ev \in 1..Len(heap))
                  => /\ ProcessorCallStarts(t)
                     /\ wp_task'[t].op = "retry_failed"]_vars

\* C16 witness: a run over two handlers is over in which every handler used
\* up all of its two or more attempts.
C16_RunUsedEveryAttempt ==
    \E t \in Tasks :
        /\ RunDone(wp_task[t])
        /\ wp.max_retries >= 2
        /\ Len(RunHandlers(wp_task[t])) = 2
        /\ Len(wp_task[t].trace) = 2 * wp.max_retries



-----------------------------------------------------------------------------
(* Claims about the domain handlers, under HandlerSpec *)

\* The elements of a list.
Range(seq) == {seq[i] : i \in 1..Len(seq)}

\* The calls of one kind that the current handle() call has made so far,
\* returned or raised.
Attempted(f, op) == {i \in 1..Len(f.log) : f.log[i][1] = op}

\* The await the current handle() call is waiting in is of this kind.
Waiting(f, op) == f.outcome = "running" /\ Head(f.awaits).op = op

\* C17: DisputeEventHandler._handle_created has persisted the dispute under
\* dispute:{dispute.id}, with its charge, amount and reason, whenever the admin
\* alert is being attempted or has been attempted, and whenever it has returned
\* (so also when no notification service is configured and no alert is made).
C17_DisputePersistedBeforeAlert ==
    \A t \in Tasks :
        (/\ dh[t].method = "_handle_created"
         /\ \/ Waiting(dh[t], "send")
            \/ Attempted(dh[t], "send") # {}
            \/ dh[t].outcome = "returned")
        => /\ notifications <=> (Waiting(dh[t], "send") \/ Attempted(dh[t], "send") # {})
           /\ <<"dispute", Dispute.id>> \in DOMAIN er.storage
           /\ er.storage[<<"dispute", Dispute.id>>].charge_id = Dispute.charge
           /\ er.storage[<<"dispute", Dispute.id>>].amount = Dispute.amount
           /\ er.storage[<<"dispute", Dispute.id>>].reason = Dispute.reason
           /\ er.storage[<<"dispute", Dispute.id>>].created_at = dh[t].now

\* A dispute was delivered and the admin alert went out.
C17_AlertSentForDispute ==
    /\ dh[1].method = "_handle_created"
    /\ dh[1].outcome = "returned"
    /\ \E i \in 1..Len(outbox) : outbox[i].template = "admin_alert"
    /\ <<"dispute", Dispute.id>> \in DOMAIN er.storage

\* C18: every call of SubscriptionEventHandler._handle_updated that has ended,
\* by returning or because the customer lookup or the payment-failed
\* notification raised, has persisted the snapshot subscription:{id} of this
\* call together with its change log, stamped when the snapshot was built.  (A
\* call ended by the failure of the snapshot write itself is left aside.)
C18_UpdatedSnapshotAlwaysPersisted ==
    \A t \in Tasks :
        (/\ dh[t].method = "_handle_updated"
         /\ dh[t].outcome \in {"returned", "raised"}
         /\ \A i \in Attempted(dh[t], "put") : dh[t].log[i][2] = "returned")
        => LET key == <<"subscription", DataOf(dh[t].id).object.id>>
           IN  /\ key \in DOMAIN er.storage
               /\ er.storage[key].updated_at = dh[t].now
               /\ er.storage[key].status = DataOf(dh[t].id).object.status
               /\ er.storage[key].changes = dh[t].result.changes

\* C19: a call of SubscriptionEventHandler._handle_updated triggers the
\* payment-failed notification (it looks the customer up and, once the lookup
\* answered, awaits send_payment_failed before anything else) exactly when the
\* previous attributes carry status active, the new status is past_due and a
\* notification service is configured; in every other case it makes neither the
\* lookup nor the send.  Once the mail is delivered it is addressed to the
\* subscription's customer; and whenever the previous attributes carry a
\* status, the change log returned and the one persisted contain the entry
\* status:<old>-><new>.
C19_PaymentFailedExactlyOnActiveToPastDue ==
    \A t \in Tasks :
        dh[t].method = "_handle_updated" =>
            LET data == DataOf(dh[t].id)
                previous == data.previous_attributes
                subscription == data.object
                key == <<"subscription", subscription.id>>
                due == /\ "status" \in DOMAIN previous
                       /\ previous.status = "active"
                       /\ subscription.status = "past_due"
                       /\ notifications
                sending == Waiting(dh[t], "send") \/ Attempted(dh[t], "send") # {}
            IN  /\ due <=> Attempted(dh[t], "retrieve") = {1}
                /\ ~due => Attempted(dh[t], "retrieve") = {} /\ ~sending
                /\ due => (sending <=> dh[t].log[1] = <<"retrieve", "returned">>)
                /\ sending => Attempted(dh[t], "put") = {}
                                \/ Attempted(dh[t], "send") # {}
                /\ <<"send", "returned">> \in Range(dh[t].log) =>
                      \E i \in 1..Len(outbox) :
                          /\ outbox[i].template = "payment_failed"
                          /\ outbox[i].to = CustomerEmail(subscription.customer)
                          /\ outbox[i].data.subscription_id = subscription.id
                /\ "status" \in DOMAIN previous =>
                      LET entry == StatusChange(previous.status, subscription.status)
                      IN  /\ entry \in Range(dh[t].result.changes)
                          /\ <<"put", "returned">> \in Range(dh[t].log) =>
                                entry \in Range(er.storage[key].changes)

\* An active subscription went past_due, the payment-failed mail was delivered
\* and the snapshot written.
C19_PaymentFailedMailSent ==
    /\ dh[1].id = "evt_sub_active_past_due"
    /\ dh[1].outcome = "returned"
    /\ \E i \in 1..Len(outbox) : outbox[i].template = "payment_failed"
    /\ "status:active->past_due" \in
            Range(er.storage[<<"subscription", "sub_1">>].changes)

\* A process_webhook call that is the first delivery of an invoice.paid event
\* and has invoked the handler.
FirstPaidDelivery(t) ==
    /\ er_task[t].pc \notin {"idle", "get"}
    /\ TypeOf(er_task[t].req.id) = "invoice.paid"
    /\ er_handled[er_task[t].req.id] = 1
    /\ er_task[t].invoked = 1

\* Such a call has been answered processed.
FirstPaidDeliveryProcessed(t) ==
    /\ FirstPaidDelivery(t)
    /\ er_task[t].pc = "done"
    /\ er_task[t].result.kind = "return"

\* The payment record of the invoice is stored under payment:{invoice.id}.
PaymentPersisted(invoice, now) ==
    /\ <<"payment", invoice.id>> \in DOMAIN er.storage
    /\ er.storage[<<"payment", invoice.id>>] =
            [customer_id |-> invoice.customer, amount |-> invoice.amount_paid,
             currency |-> invoice.currency, paid_at |-> now]

\* The receipt of the invoice was delivered to the invoice's customer email.
ReceiptSent(invoice) ==
    \E i \in 1..Len(outbox) :
        /\ outbox[i].template = "receipt"
        /\ outbox[i].to = invoice.customer_email
        /\ outbox[i].data.invoice_id = invoice.id
        /\ outbox[i].data.amount = invoice.amount_paid

\* The response {status: processed, event_id: <event id>, ...}.
ProcessedResponse(tk) ==
    /\ tk.result.kind = "return"
    /\ tk.result.body.status = "processed"
    /\ tk.result.body.event_id = tk.req.id

\* C20 (as stated): after the first verified delivery of an invoice.paid event
\* through the router of create_event_router has been answered, the payment
\* record is stored under payment:{invoice.id}, the receipt has been sent to
\* the invoice's customer email whenever the invoice has one, and the response
\* is {status: processed, event_id}.
C20_FirstPaidDeliveryAlwaysSendsReceipt ==
    \A t \in Tasks :
        FirstPaidDeliveryProcessed(t) =>
            LET invoice == DataOf(er_task[t].req.id).object
            IN  /\ PaymentPersisted(invoice, er.storage[<<"payment", invoice.id>>].paid_at)
                /\ Present(invoice.customer_email) => ReceiptSent(invoice)
                /\ ProcessedResponse(er_task[t])

\* C20 (amended): in the first verified delivery of an invoice.paid event
\* through the router of create_event_router, the handler's first await is the
\* put of the payment record under payment:{invoice.id}, and once that put has
\* returned the record is stored; the receipt is then sent to the invoice's
\* customer email exactly when the invoice has one and create_event_router was
\* given an email sender (otherwise no notification is attempted); and the call
\* ends with the response {status: processed, event_id, result: {handled: true,
\* amount_paid}} when no storage or email-sender call raised, and by raising
\* otherwise.
C20_FirstPaidDeliveryOutcomes ==
    \A t \in Tasks :
        FirstPaidDelivery(t) =>
            LET invoice == DataOf(er_task[t].req.id).object
                f == dh[t]
                put_returned == f.log # <<>> /\ f.log[1] = <<"put", "returned">>
                receipt_due == notifications /\ Present(invoice.customer_email)
                sending == Waiting(f, "send") \/ Attempted(f, "send") # {}
            IN  /\ f.method = "_handle_paid"
                /\ IF f.log = <<>>
                   THEN /\ Waiting(f, "put")
                        /\ Head(f.awaits).key = <<"payment", invoice.id>>
                   ELSE f.log[1][1] = "put"
                /\ put_returned => PaymentPersisted(invoice, f.now)
                /\ sending <=> (put_returned /\ receipt_due)
                /\ <<"send", "returned">> \in Range(f.log) => ReceiptSent(invoice)
                /\ f.outcome = "returned" =>
                      /\ put_returned
                      /\ receipt_due => ReceiptSent(invoice)
                      /\ ~receipt_due => f.log = <<<<"put", "returned">>>>
                /\ er_task[t].pc = "done" =>
                      IF er_task[t].error = "None"
                      THEN /\ f.outcome = "returned"
                           /\ er_task[t].result =
                                 Returns([status |-> "processed",
                                          event_id |-> er_task[t].req.id,
                                          result |-> [handled |-> TRUE,
                                                      amount_paid |-> invoice.amount_paid]])
                      ELSE er_task[t].result.kind = "raise"

\* The first delivery of evt_1 ended with the payment stored, the receipt sent
\* and the processed response.
C20_ReceiptSentForFirstPaidDelivery ==
    /\ FirstPaidDeliveryProcessed(1)
    /\ er_task[1].req.id = "evt_1"
    /\ notifications
    /\ ReceiptSent(DataOf("evt_1").object)
    /\ PaymentPersisted(DataOf("evt_1").object, dh[1].now)
    /\ ProcessedResponse(er_task[1])
    /\ er_task[1].result.body.result.amount_paid = 2000

-----------------------------------------------------------------------------
(* Claims about the router's registry, under RegistrySpec *)

\* The registered handlers that declare the event type, in registration order.
RECURSIVE Declaring(_, _)
Declaring(list, type) ==
    IF list = <<>> THEN <<>>
    ELSE (IF type \in Range(Head(list).event_types) THEN <<Head(list).name>> ELSE <<>>)
         \o Declaring(Tail(list), type)

\* The handlers a process_webhook call has invoked, in order: it awaits the one
\* handler it looked up, once.
Ran(tk) == IF tk.invoked = 0 THEN <<>> ELSE <<tk.handler>>

\* C21: when two registered handlers declare the type of a verified, not yet
\* processed delivery, process_webhook has invoked both of them, in registration
\* order, by the time handling is over and the ledger write is due.
C21_BothHandlersOfATypeInvoked ==
    \A t \in Tasks :
        (/\ er_task[t].pc = "put"
         /\ Len(Declaring(er.registered, TypeOf(er_task[t].req.id))) = 2)
        => Ran(er_task[t]) = Declaring(er.registered, TypeOf(er_task[t].req.id))

-----------------------------------------------------------------------------
(* Further claims about WebhookProcessor, under Spec *)

\* C22: in a run of _process_event, once a handler has returned without raising
\* it is not invoked again (every later invocation, the one in flight included,
\* is of a later handler), and a backoff sleep only ever follows an attempt that
\* raised, never a success.
C22_SuccessShortCircuitsRetries ==
    \A t \in Tasks :
        LET tk == wp_task[t] IN
        /\ \A i \in 1..Len(tk.trace) :
              tk.trace[i][2] = "returned" =>
                  /\ \A j \in (i + 1)..Len(tk.trace) : tk.trace[j][1] > tk.trace[i][1]
                  /\ tk.pc \in {"handler", "sleep"} => tk.h > tk.trace[i][1]
        /\ tk.pc = "sleep" =>
              /\ tk.trace # <<>>
              /\ tk.trace[Len(tk.trace)] = <<tk.h, "raised">>
        /\ Len(tk.slept) <= Cardinality({i \in 1..Len(tk.trace) : tk.trace[i][2] = "raised"})

\* A run in which the first handler failed once, then succeeded with attempts to
\* spare, and the second handler followed.
C22_SucceededOnRetry ==
    \E t \in Tasks :
        /\ RunDone(wp_task[t])
        /\ wp.max_retries = MaxRetries
        /\ wp_task[t].trace = <<<<1, "raised">>, <<1, "returned">>, <<2, "returned">>>>

\* 1 + 2 + ... + n
RECURSIVE Triangle(_)
Triangle(n) == IF n <= 0 THEN 0 ELSE n + Triangle(n - 1)

RECURSIVE Sum(_)
Sum(seq) == IF seq = <<>> THEN 0 ELSE Head(seq) + Sum(Tail(seq))

\* Entry i of the trace is the n-th failed attempt of its handler: n.
FailureNumber(trace, i) ==
    Cardinality({j \in 1..i : trace[j] = <<trace[i][1], "raised">>})

\* The delays the claim prescribes for the first k outcomes of a trace:
\* retry_delay * n after the n-th failed attempt of a handler when n is below
\* max_retries, nothing after the last failed attempt or after a success.
RECURSIVE PrescribedSleeps(_, _, _, _)
PrescribedSleeps(trace, k, max_retries, retry_delay) ==
    IF k = 0 THEN <<>>
    ELSE PrescribedSleeps(trace, k - 1, max_retries, retry_delay)
         \o (IF /\ trace[k][2] = "raised"
                /\ FailureNumber(trace, k) < max_retries
             THEN <<retry_delay * FailureNumber(trace, k)>>
             ELSE <<>>)

\* C23: the sleeps a run of _process_event has completed are exactly the
\* prescribed ones, in order (the sleep in progress is the next prescribed one
\* and is the only one missing); a task sleeps after a failed attempt exactly
\* when that attempt was not the handler's last; and a run in which every
\* handler failed every attempt has slept
\* retry_delay * (1 + ... + (max_retries - 1)) per handler.
C23_BackoffGrowsLinearly ==
    \A t \in Tasks :
        LET tk == wp_task[t]
            all == PrescribedSleeps(tk.trace, Len(tk.trace),
                                    wp.max_retries, wp.retry_delay)
        IN  /\ tk.pc = "sleep" =>
                  /\ Len(all) = Len(tk.slept) + 1
                  /\ tk.slept = SubSeq(all, 1, Len(all) - 1)
                  /\ FailureNumber(tk.trace, Len(tk.trace)) < wp.max_retries
            /\ tk.pc \in {"handler", "done"} => tk.slept = all
            /\ (RunDone(tk) /\ \A i \in 1..Len(tk.trace) : tk.trace[i][2] = "raised")
                  => Sum(tk.slept) = Len(RunHandlers(tk)) * wp.retry_delay
                                        * Triangle(wp.max_retries - 1)

\* A run in which a handler failed three attempts in a row and slept
\* retry_delay, then twice retry_delay, in between.
C23_SleptOnceThenTwiceTheDelay ==
    \E t \in Tasks :
        /\ wp.max_retries >= 3
        /\ wp_task[t].pc = "handler"
        /\ wp_task[t].trace = <<<<1, "raised">>, <<1, "raised">>>>
        /\ wp_task[t].slept = <<wp.retry_delay, 2 * wp.retry_delay>>

\* C24: a retry_failed call that found its event starts the engine afresh.  When
\* its first attempt is in flight (or, with no attempt to make, when it is done)
\* the event's last_error is None and its attempts count only what this re-run
\* did, provided no other call shares the event meanwhile; and in the re-run a
\* handler is left behind only after it returned or after it failed max_retries
\* attempts of this re-run, whatever the original run used up.
C24_ManualRetryStartsAfresh ==
    \A t \in Tasks :
        LET tk == wp_task[t] IN
        (tk.op = "retry_failed" /\ tk.ev # 0) =>
            /\ (tk.solo /\ tk.trace = <<>>) =>
                  /\ heap[tk.ev].last_error = "None"
                  /\ heap[tk.ev].attempts = IF tk.pc = "handler" THEN 1 ELSE 0
                  /\ tk.attempt = 0
            /\ \A h \in 1..Len(RunHandlers(tk)) :
                  (RunDone(tk) \/ tk.h > h) =>
                      \/ Succeeded(tk, h)
                      \/ Failures(tk, h) = wp.max_retries
            /\ \A h \in 1..Len(RunHandlers(tk)) : Failures(tk, h) <= wp.max_retries

\* A manual retry of a dead-lettered event in which the first handler failed
\* again and then succeeded on the last attempt of its fresh budget.
C24_RetrySucceededOnLastAttempt ==
    \E t \in Tasks :
        /\ wp_task[t].op = "retry_failed"
        /\ RunDone(wp_task[t])
        /\ wp.max_retries = MaxRetries
        /\ Failures(wp_task[t], 1) = MaxRetries - 1
        /\ Succeeded(wp_task[t], 1)

-----------------------------------------------------------------------------
(* Further claims about EventRouter.process_webhook, under RegistrySpec *)

\* C25 as stated: once the ledger write of a process_webhook call has failed
\* (after its handler returned), the call never returns a status: its next step
\* writes failed:{id} carrying the event id and the error, and ends the call with
\* that exception raised to the caller.
C25_LedgerWriteFailureIsRecordedAndRaised ==
    /\ [](\A t \in Tasks :
            er_task[t].error = "storage" =>
                /\ er_task[t].pc \in {"put_failed", "done"}
                /\ er_task[t].pc = "done" => er_task[t].result = Raises("storage")
                /\ er_task[t].invoked = 1)
    /\ [][\A t \in Tasks :
            (er_task[t].error = "storage" /\ er_task'[t] # er_task[t]
                /\ er_task[t].pc = "put_failed")
            => LET key == FailedKey(er_task[t].req.id) IN
               /\ er_task'[t].pc = "done"
               /\ er_task'[t].result = Raises("storage")
               /\ key \in DOMAIN er'.storage
               /\ er'.storage[key].event_id = er_task[t].req.id
               /\ er'.storage[key].error = "storage"
               /\ EventKey(er_task[t].req.id) \in DOMAIN er'.storage
                    <=> EventKey(er_task[t].req.id) \in DOMAIN er.storage]_vars

\* C25, amended: once the ledger write of a process_webhook call has failed
\* (after its handler returned), the call never returns a status: its next step
\* ends the call with a storage exception raised to the caller and leaves
\* event:{id} as it was; when the write of failed:{id} succeeds the store then
\* holds failed:{id} carrying the event id and the error, and when that write
\* raises as well the store is left unchanged.
C25_LedgerWriteFailureIsRaisedAndRecordedIfStorable ==
    /\ [](\A t \in Tasks :
            er_task[t].error = "storage" =>
                /\ er_task[t].pc \in {"put_failed", "done"}
                /\ er_task[t].pc = "done" => er_task[t].result = Raises("storage")
                /\ er_task[t].invoked = 1)
    /\ [][\A t \in Tasks :
            (er_task[t].error = "storage" /\ er_task'[t] # er_task[t]
                /\ er_task[t].pc = "put_failed")
            => LET key == FailedKey(er_task[t].req.id) IN
               /\ er_task'[t].pc = "done"
               /\ er_task'[t].result = Raises("storage")
               /\ EventKey(er_task[t].req.id) \in DOMAIN er'.storage
                    <=> EventKey(er_task[t].req.id) \in DOMAIN er.storage
               /\ IF er_task'[t].puts = er_task[t].puts + 1
                  THEN /\ key \in DOMAIN er'.storage
                       /\ er'.storage[key].event_id = er_task[t].req.id
                       /\ er'.storage[key].error = "storage"
                  ELSE /\ er_task'[t].puts = er_task[t].puts
                       /\ er'.storage = er.storage]_vars

\* A delivery whose handler returned and whose ledger write failed has ended
\* with the exception, leaving failed:{id} and no ledger entry.
C25_LedgerWriteFailed ==
    \E t \in Tasks :
        /\ er_task[t].pc = "done"
        /\ er_task[t].error = "storage"
        /\ er_task[t].result.kind = "raise"
        /\ FailedKey(er_task[t].req.id) \in DOMAIN er.storage
        /\ er.storage[FailedKey(er_task[t].req.id)].error = "storage"
        /\ EventKey(er_task[t].req.id) \notin DOMAIN er.storage

\* C26: a process_webhook call that has returned status processed for an event
\* id has completed its ledger write, and the store holds event:{id} for that
\* id with success = true.
C26_ProcessedImpliesLedgerEntry ==
    \A t \in Tasks :
        (/\ er_task[t].result.kind = "return"
         /\ "error" \notin DOMAIN er_task[t].result.body
         /\ er_task[t].result.body.status = "processed")
        => LET id == er_task[t].result.body.event_id IN
           /\ id = er_task[t].req.id
           /\ er_task[t].pc = "done"
           /\ er_task[t].puts = 1
           /\ er_task[t].error = "None"
           /\ EventKey(id) \in DOMAIN er.storage
           /\ er.storage[EventKey(id)].event_id = id
           /\ er.storage[EventKey(id)].success = TRUE

\* A delivery was answered processed.
C26_AnsweredProcessed ==
    \E t \in Tasks :
        /\ er_task[t].pc = "done"
        /\ er_task[t].result = Returns([status |-> "processed",
                                        event_id |-> er_task[t].req.id,
                                        result |-> er_task[t].data])
        /\ er_task[t].data =
              [handled |-> TRUE,
               amount_paid |-> DataOf(er_task[t].req.id).object.amount_paid]
        /\ er.storage[EventKey(er_task[t].req.id)].success

\* C27: a verified delivery whose event type has no registered handler is
\* answered unhandled, having invoked no handler and written nothing; the store
\* holds neither event:{id} nor failed:{id} for such an id, so a later delivery
\* of the id is answered the same way.
C27_UnhandledPersistsNothing ==
    /\ [](\A t \in Tasks :
            (/\ er_task[t].pc \notin {"idle", "get"}
             /\ Verified(er_task[t].req)
             /\ TypeOf(er_task[t].req.id) \notin DOMAIN er.handlers)
            => /\ er_task[t].pc = "done"
               /\ er_task[t].result =
                      Returns([status |-> "unhandled",
                               event_type |-> TypeOf(er_task[t].req.id)])
               /\ er_task[t].invoked = 0
               /\ er_task[t].puts = 0
               /\ EventKey(er_task[t].req.id) \notin DOMAIN er.storage
               /\ FailedKey(er_task[t].req.id) \notin DOMAIN er.storage)
    /\ [][\A t \in Tasks :
            (/\ er_task'[t] # er_task[t]
             /\ Verified(er_task'[t].req)
             /\ TypeOf(er_task'[t].req.id) \notin DOMAIN er.handlers)
            => er'.storage = er.storage]_vars

\* Two deliveries of one event of an unregistered type have both been answered
\* unhandled (the second arrived after the first was answered by the router or
\* while it was), the store being as it was.
C27_AnsweredUnhandledTwice ==
    /\ er_task[1].pc = "done"
    /\ er_task[2].pc = "done"
    /\ er_task[1].req.id = er_task[2].req.id
    /\ Verified(er_task[1].req)
    /\ Verified(er_task[2].req)
    /\ er_task[1].result.body.status = "unhandled"
    /\ er_task[2].result.body.status = "unhandled"
    /\ er.storage = EmptyStorage

-----------------------------------------------------------------------------
(* A further claim about the domain handlers, under HandlerSpec *)

\* The session carries customer details with a non-empty contact email.
HasContactEmail(session) ==
    session.customer_details # None /\ Present(session.customer_details.email)

\* C28: a call of CheckoutEventHandler._handle_expired that returned has written
\* abandoned:{session id}, with the contact email and the amount, if and only if
\* the session has customer details with a non-empty email; otherwise it made
\* no storage call at all; and in both cases it returned handled = true.
C28_AbandonedCartTrackedIffContactEmail ==
    \A t \in Tasks :
        (dh[t].method = "_handle_expired" /\ dh[t].outcome = "returned") =>
            LET session == DataOf(dh[t].id).object
                key == <<"abandoned", session.id>>
            IN  /\ HasContactEmail(session) <=> dh[t].log = <<<<"put", "returned">>>>
                /\ ~HasContactEmail(session) => dh[t].log = <<>>
                /\ HasContactEmail(session) =>
                      /\ key \in DOMAIN er.storage
                      /\ er.storage[key] =
                            [email |-> session.customer_details.email,
                             amount |-> session.amount_total,
                             expired_at |-> dh[t].now]
                /\ dh[t].result.handled = TRUE
                /\ dh[t].result.action = "tracked_abandoned"

\* An expired checkout session with a contact email was tracked, and one
\* without customer details was handled without a storage call.
C28_AbandonedCartTracked ==
    /\ dh[1].id = "evt_expired_no_details"
    /\ dh[1].outcome = "returned"
    /\ dh[1].log = <<>>
    /\ dh[1].now = 2
    /\ <<"abandoned", "cs_1">> \in DOMAIN er.storage
    /\ er.storage[<<"abandoned", "cs_1">>].email = "buyer@example.com"

-----------------------------------------------------------------------------
(* Further claims about WebhookProcessor's lists, under Spec *)

\* C29: event_log never holds two entries with the same event id.
C29_EventLogHasOneEntryPerId ==
    \A i, j \in 1..Len(wp.event_log) :
        heap[wp.event_log[i]].id = heap[wp.event_log[j]].id => i = j

\* The run of tk has added its event to failed_events: the attempts of one of
\* its handlers ended without a return (the for-else of lines 176-178).
AddedToFailedEvents(tk) ==
    \E h \in 1..Len(RunHandlers(tk)) :
        (RunDone(tk) \/ tk.h > h) /\ ~Succeeded(tk, h)

\* C30: for every max_retries >= 0, a run of _process_event that has added its
\* event to failed_events returns partial_failure with the event id and a
\* non-empty errors list.
C30_DeadLetteredRunReportsPartialFailure ==
    \A t \in Tasks :
        (RunDone(wp_task[t]) /\ AddedToFailedEvents(wp_task[t])) =>
            /\ wp_task[t].result.kind = "return"
            /\ wp_task[t].result.body.status = "partial_failure"
            /\ wp_task[t].result.body.event_id = heap[wp_task[t].ev].id
            /\ wp_task[t].result.body.errors # <<>>

\* Some entry of failed_events carries the id.
IdDeadLettered(id) ==
    \E i \in 1..Len(wp.failed_events) : heap[wp.failed_events[i]].id = id

\* C31: when a retry_failed(event_id) call, made with no other call in flight,
\* has returned status processed, failed_events holds no event with that id.
C31_ProcessedRetryClearsFailedEvents ==
    \A t \in Tasks :
        (/\ wp_task[t].op = "retry_failed"
         /\ wp_task[t].solo
         /\ RunDone(wp_task[t])
         /\ wp_task[t].result.body.status = "processed")
        => ~IdDeadLettered(wp_task[t].event_id)

\* C32: a retry_failed(event_id) call that arrives when failed_events holds no
\* event with that id returns {status: not_found} at once, invokes no handler,
\* and leaves the processor (event_log, failed_events) and the events unchanged.
C32_RetryOfUnknownIdChangesNothing ==
    [][\A t \in Tasks :
          (/\ ProcessorCallStarts(t)
           /\ wp_task'[t].op = "retry_failed"
           /\ ~IdDeadLettered(wp_task'[t].event_id))
          => /\ wp' = wp
             /\ heap' = heap
             /\ wp_task'[t].pc = "done"
             /\ wp_task'[t].result = Returns([status |-> "not_found"])
             /\ wp_task'[t].ev = 0
             /\ wp_task'[t].trace = <<>>]_vars

\* A retry of an id that is not dead-lettered was answered not_found while
\* another event was.
C32_AnsweredNotFound ==
    \E t \in Tasks :
        /\ wp_task[t].pc = "done"
        /\ wp_task[t].op = "retry_failed"
        /\ wp_task[t].result = Returns([status |-> "not_found"])
        /\ wp.failed_events # <<>>
        /\ ~IdDeadLettered(wp_task[t].event_id)

-----------------------------------------------------------------------------
(* APIKeyManager: the vocabulary of the properties *)

\* The key stored under the id, as _get_key_by_id would load it.
StoredIn(storage, id) == DictToKey(storage[ApiKeyKey(id)])

StoredKey(id) == StoredIn(km.storage, id)

\* Task t returns in this step.
KeyCallReturns(t) == km_task[t].pc # "done" /\ km_task'[t].pc = "done"

\* Task t returns from validate_key in this step, with is_valid = True.
ReturnsValid(t) ==
    /\ KeyCallReturns(t)
    /\ km_task'[t].op = "validate_key"
    /\ km_task'[t].result.body[1]

\* What validate_key(raw key of the stored key, no required scopes) answers when
\* it runs alone on the present storage.
ValidationOf(manager, id) ==
    ValidateLoaded([KeyIdle EXCEPT !.op = "validate_key"],
                   StoredIn(manager.storage, id), manager.calls + 1)

\* C33: once a revoke_key(key_id) that overlapped no other call has returned
\* True, the stored status of the key is REVOKED in every later state, whatever
\* update_key, reset_rate_limit, rotate_key and validate_key calls on the key
\* follow (one at a time or overlapping each other), and no validate_key call
\* returns valid for that key.
C33_RevokedStaysRevoked ==
    /\ [](\A id \in km.revoked : StoredKey(id).status = REVOKED)
    /\ [][\A t \in Tasks :
            ReturnsValid(t) => km_task'[t].result.body[2].id \notin km.revoked]_vars

\* A key was revoked, then reset_rate_limit and rotate_key ran on it, and then
\* update_key stored it again while a validate_key of its raw key overlapped the
\* update: the validate_key loaded the updated record and was refused as
\* revoked.
C33_RevokedThenUsed ==
    \E t, u \in Tasks :
        /\ km_task[t].pc = "done"
        /\ km_task[t].op = "update_key"
        /\ ~km_task[t].solo
        /\ km_task[t].api_key # None
        /\ km_task[t].api_key.id \in km.revoked
        /\ km_task[t].api_key.id \in DOMAIN km.valid
        /\ km.minted >= 2
        /\ km_task[u].pc = "done"
        /\ km_task[u].op = "validate_key"
        /\ ~km_task[u].solo
        /\ km_task[u].result.body[3] = "Key has been revoked"
        /\ km_task[u].result.body[2].id = km_task[t].api_key.id
        /\ km_task[u].result.body[2].name = "renamed"

\* C34: between two reset_rate_limit calls, the validate_key calls that return
\* valid for one key (whose rate_limit no update_key changed) number at most the
\* key's rate_limit, also when they overlap.
C34_ValidCallsWithinRateLimit ==
    \A id \in DOMAIN km.valid :
        (Stored(km.storage, ApiKeyKey(id)) /\ id \notin km.updated)
            => km.valid[id] <= StoredKey(id).rate_limit

\* C35: when a rotate_key that overlapped no other call returns a new key, the
\* stored old key is REVOKED and validate_key refuses it, and the stored new key
\* is ACTIVE, of the same customer, scopes and rate_limit as the old key, with
\* request_count 0; when it returns (None, None) the key id is not stored and
\* the storage is as it was when the call began.
C35_RotateReplacesKey ==
    [][\A t \in Tasks :
         (/\ KeyCallReturns(t)
          /\ km_task'[t].op = "rotate_key"
          /\ km_task'[t].solo)
         => IF km_task'[t].result.body = <<None, None>>
            THEN /\ ~Stored(km.storage, ApiKeyKey(km_task[t].key_id))
                 /\ km'.storage = km.storage
                 /\ km_task[t].pc = "key_get"
                 /\ km_task[t].old_key = None
            ELSE LET old == StoredIn(km'.storage, km_task[t].key_id)
                     new == StoredIn(km'.storage, km_task'[t].result.body[2].id)
                     refused == ValidationOf(km', km_task[t].key_id)
                 IN
                 /\ old.status = REVOKED
                 /\ refused.pc = "done"
                 /\ ~refused.result.body[1]
                 /\ new.id # old.id
                 /\ new.status = ACTIVE
                 /\ new.customer_id = old.customer_id
                 /\ new.scopes = old.scopes
                 /\ new.rate_limit = old.rate_limit
                 /\ new.request_count = 0
                 /\ StorageGet(km'.storage,
                               HashMappingKey(HashKey(km_task'[t].result.body[1])))
                      = new.id]_vars

\* A rotate_key returned a new key and a validate_key on the old raw key was
\* then refused as revoked.
C35_RotatedAndOldKeyRefused ==
    \E t \in Tasks, u \in Tasks :
        /\ km_task[t].pc = "done"
        /\ km_task[t].op = "rotate_key"
        /\ km_task[t].solo
        /\ km_task[t].result.body # <<None, None>>
        /\ km_task[u].pc = "done"
        /\ km_task[u].op = "validate_key"
        /\ km_task[u].result.body[3] = "Key has been revoked"
        /\ km_task[u].result.body[2].id = km_task[t].key_id

-----------------------------------------------------------------------------
(* OnboardingManager: the vocabulary of the properties *)

\* The onboarding state the storage holds for the customer.
OnboardingIn(storage, customer_id) == DictToState(storage[OnboardingKey(customer_id)])

Started(storage, customer_id) == Stored(storage, OnboardingKey(customer_id))

\* The steps the list holds.
StepsOf(list) == {list[i] : i \in 1..Len(list)}

AllCompleted(state) == StepsOf(state.completed_steps) = OnboardingSteps

\* The positions in the enumeration of the steps that are not in `done` while
\* each of their requirements is.
Eligible(done) ==
    {k \in 1..Len(StepOrder) :
        StepOrder[k] \notin done /\ StepsOf(StepRequirements(StepOrder[k])) \subseteq done}

\* C36: in every onboarding state the storage holds, each completed step has all
\* its requirements completed, and LIVE is completed only together with all
\* eleven steps.
C36_CompletedStepsClosedUnderRequirements ==
    \A customer_id \in Customers :
        Started(ob.storage, customer_id) =>
            LET done == StepsOf(OnboardingIn(ob.storage, customer_id).completed_steps) IN
            /\ \A step \in done : StepsOf(StepRequirements(step)) \subseteq done
            /\ "live" \in done =>
                  /\ done = OnboardingSteps
                  /\ Cardinality(done) = Len(StepOrder)

\* go_live returned success and the stored state has LIVE completed.
C36_WentLive ==
    \E t \in Tasks, customer_id \in Customers :
        /\ ob_task[t].pc = "done"
        /\ ob_task[t].op = "go_live"
        /\ ob_task[t].result.kind = "return"
        /\ ob_task[t].result.body.success
        /\ Started(ob.storage, customer_id)
        /\ In("live", OnboardingIn(ob.storage, customer_id).completed_steps)

\* C37: a complete_step called (by a call that overlaps no other) when the
\* onboarding is not started, or when a requirement of the step is not completed,
\* returns success = False and leaves the storage as it was; and no stored
\* completed_steps lists a step twice.
C37_FailedStepChangesNothing ==
    /\ \A t \in Tasks : \A i \in 1..Len(ob_task[t].returned) :
          LET call == ob_task[t].returned[i]
              customer_id == ob_task[t].customer_id
          IN
          (/\ ob_task[t].solo
           /\ \/ ~Started(call.entry, customer_id)
              \/ ~(StepsOf(StepRequirements(call.step)) \subseteq
                     StepsOf(OnboardingIn(call.entry, customer_id).completed_steps)))
          => /\ ~call.value.success
             /\ call.exit = call.entry
    /\ \A customer_id \in Customers :
          Started(ob.storage, customer_id) =>
             LET steps == OnboardingIn(ob.storage, customer_id).completed_steps IN
             \A i \in 1..Len(steps), j \in 1..Len(steps) : steps[i] = steps[j] => i = j

\* A complete_step that overlapped no other call was refused for a missing
\* requirement of a started onboarding.
C37_RefusedForMissingRequirement ==
    \E t \in Tasks :
        /\ ob_task[t].solo
        /\ ob_task[t].pc = "done"
        /\ Len(ob_task[t].returned) >= 1
        /\ Started(ob_task[t].returned[1].entry, ob_task[t].customer_id)
        /\ "missing_requirement" \in DOMAIN ob_task[t].returned[1].value
        /\ ob_task[t].returned[1].exit = ob.storage

\* C38: the state a successful complete_step stored has, while a step remains to
\* complete, the first step in enumeration order that is not completed and has
\* its requirements completed as its current_step, and has completed_at set
\* exactly when all steps are completed.
C38_CurrentStepIsNextStep ==
    \A t \in Tasks : \A i \in 1..Len(ob_task[t].returned) :
        LET call == ob_task[t].returned[i] IN
        call.value.success =>
            LET state == OnboardingIn(call.exit, ob_task[t].customer_id)
                eligible == Eligible(StepsOf(state.completed_steps))
            IN
            /\ ~AllCompleted(state) =>
                  \E k \in eligible :
                     /\ state.current_step = StepOrder[k]
                     /\ \A j \in eligible : k <= j
            /\ state.completed_at # NoTime <=> AllCompleted(state)
            /\ call.value.next_step = state.current_step
            /\ call.value.is_complete <=> AllCompleted(state)

\* A successful complete_step of WEBHOOK_CONFIGURED left FIRST_PRODUCT, an earlier
\* step of the enumeration, as the current step.
C38_SteppedBack ==
    \E t \in Tasks :
        /\ Len(ob_task[t].returned) >= 1
        /\ ob_task[t].returned[1].step = "webhook_configured"
        /\ ob_task[t].returned[1].value.success
        /\ OnboardingIn(ob_task[t].returned[1].exit,
                        ob_task[t].customer_id).current_step = "first_product"

=============================================================================
